---- MODULE Spec2Model ----
(***************************************************************************)
(* Model of the ingestion pipeline of crewai_demo/ingest_books.py:         *)
(* the chunker (chunk_text), the Drive synchronizer (sync_drive_pdfs),     *)
(* the full rebuild (ingest_books) and the incremental article add         *)
(* (add_article_to_knowledge_base) over one vector-index collection.       *)
(*                                                                         *)
(* A text is a record [len, dots, sp, nl]: its length, the positions of    *)
(* its '.' characters, the positions of its whitespace characters and,     *)
(* among those, the positions of its newlines; every other position holds  *)
(* a letter.  The pipeline reads nothing else of a document's text (len,   *)
(* slicing, rfind('.'), strip(), split() and the whitespace regexes).      *)
(* Short strings that are edited character by character (titles, network   *)
(* locations) are sequences of one-character strings.                      *)
(***************************************************************************)
EXTENDS Integers, Sequences, FiniteSets, TLC

VARIABLES
    \* ---- one call of chunk_text ----
    text,          \* the argument text
    source_name,   \* the argument source_name
    source_type,   \* the argument source_type
    start,         \* the cursor (line 194)
    chunk_id,      \* the running chunk index (line 195)
    chunks,        \* the list being built (line 193)
    windows,       \* history: <<start, end>> of every emitted chunk (lines 198-206)
    cpc,           \* "loop" while in the while loop, "returned" after line 219
    \* ---- the world of the ingestion runs ----
    collection,    \* the vector-index collection COLLECTION_NAME: [exists, items]
    books_dir,     \* whether BOOKS_DIR exists (as the last full rebuild left it)
    pdfs,          \* the local PDF files (indices into the path table) that the
                   \* last full rebuild found
    \* ---- one run of ingest_books or add_article_to_knowledge_base ----
    ipc,           \* where the run stands; "idle" between runs
    outcome,       \* how the last run ended; "running" during a run
    ret,           \* the value add_article_to_knowledge_base returned (-1: none)
    pdf_files,     \* ingest_books: the sorted, deduplicated list (line 410)
    doc_i,         \* ingest_books: position of the for loop of line 444 in pdf_files
    cur_chunks,    \* the chunks of the document being added
    batch_i,       \* the loop variable i of the batch loop (lines 355, 460)
    total_chunks,  \* ingest_books: total_chunks
    article,       \* add_article_to_knowledge_base: the extracted article
    runs,          \* the number of runs started so far
    \* ---- history of the run, for the claims ----
    run_url,       \* the url of the article run
    before,        \* the collection when the run started
    index_calls,   \* the calls the run made on the vector index, in order
    created,       \* whether the run created a collection
    handed,        \* [id, doc] of every entry handed to collection.add since the
                   \* collection was created
    extracted,     \* history: the PDFs handed to extract_text_from_pdf in the last
                   \* rebuild, in order
    sync_failed,   \* history: the Drive sync of the run raised
    \* ---- the world of the Drive synchronizer ----
    remote,        \* the Drive folder: the file records files().list returns, in
                   \* the order the API returns them
    local,         \* dest_dir: for each file name, the local file or NoFile
    now,           \* the local clock, which stamps a downloaded file
    \* ---- one run of sync_drive_pdfs ----
    force,         \* the argument force
    files,         \* the sorted listing (line 119)
    fi,            \* position of the for loop of line 128 in files
    downloaded,    \* the list returned (line 126)
    spc,           \* "idle", "loop", "returned" or "raised"
    sync_runs,     \* the number of sync runs started so far
    decisions,     \* history: per file of the run, what the loop body saw and decided
    prev_run,      \* history: how the sync run before this one ended
    \* ---- calls of _safe_filename ----
    sf_name,       \* the argument name
    sf_out,        \* the value returned for name
    sf_again,      \* the value returned for sf_out
    sf_pc,         \* "idle", "call", "once" or "twice"
    \* ---- retrieval ----
    q_site,        \* the call site of the last query: "none", "tool" or "test"
    q_results,     \* what the index returned to the last query
    q_out,         \* what the last query returned or printed, and whether it raised
    q_start,       \* history: the collection before the first query
    \* ---- one call of extract_text_from_pdf ----
    x_pdf,         \* the PDF at pdf_path
    x_pc,          \* "idle", "call", "pages", "finally", "returned", "raised", "chunked"
    x_doc,         \* doc: "none", "open", "closed" or "close_failed"
    x_text,        \* text
    x_page,        \* the number of pages read
    x_closes,      \* history: the number of calls of doc.close()
    x_error,       \* the exception on its way to the caller: "none", "open", "read", "close"
    x_chunks,      \* what chunk_text makes of the returned text
    \* ---- one call of extract_article_text ----
    pg_doc,        \* the document the server sends for url
    pg_out,        \* the dict returned
    pg_pc,         \* "idle", "call", "returned" or "raised"
    \* ---- one batch loop over the chunks of a document ----
    bt_mode,       \* "book" (lines 459-467) or "article" (lines 354-366)
    bt_docs,       \* the chunks of each document of the run, in the order of the run
    bt_d,          \* the position of the document at hand in bt_docs
    bt_i,          \* i
    bt_items,      \* the entries of the collection
    bt_calls,      \* history: the collection.add calls [doc, entries, ok]
    bt_pc,         \* "idle", "loop", "done" or "raised"
    \* ---- one call of GmailDraftTool._run ----
    gm_input,      \* input_str
    gm_service,    \* what get_gmail_service does: "ok", "none" or "raises"
    gm_pc,         \* "idle", "call", "create" or "returned"
    gm_calls,      \* history: the calls of is_safe_to_reply and of drafts().create
    gm_draft,      \* the message handed to drafts().create
    gm_out         \* the result: its kind and, when blocked, the reason

chunkVars == <<text, source_name, source_type, start, chunk_id, chunks, windows, cpc>>

worldVars == <<collection, books_dir, pdfs>>

runVars == <<ipc, outcome, ret, pdf_files, doc_i, cur_chunks, batch_i, total_chunks, article,
             runs>>

histVars == <<run_url, before, index_calls, created, handed, extracted, sync_failed>>

ingestVars == <<worldVars, runVars, histVars>>

syncVars ==
    <<remote, local, now, force, files, fi, downloaded, spc, sync_runs, decisions, prev_run>>

\* the variables each part of the model leaves alone
safeVars == <<sf_name, sf_out, sf_again, sf_pc>>

queryVars == <<q_site, q_results, q_out, q_start>>

extractVars == <<x_pdf, x_pc, x_doc, x_text, x_page, x_closes, x_error, x_chunks>>

pageVars == <<pg_doc, pg_out, pg_pc>>

batchVars == <<bt_mode, bt_docs, bt_d, bt_i, bt_items, bt_calls, bt_pc>>

mailVars == <<gm_input, gm_service, gm_pc, gm_calls, gm_draft, gm_out>>

notChunkVars ==
    <<ingestVars, syncVars, safeVars, queryVars, extractVars, pageVars, batchVars, mailVars>>

notIngestVars ==
    <<chunkVars, syncVars, safeVars, queryVars, extractVars, pageVars, batchVars, mailVars>>

notSyncVars ==
    <<chunkVars, ingestVars, safeVars, queryVars, extractVars, pageVars, batchVars, mailVars>>

notSafeVars ==
    <<chunkVars, ingestVars, syncVars, queryVars, extractVars, pageVars, batchVars, mailVars>>

\* a query works on the collection and leaves the rest alone
notQueryVars ==
    <<books_dir, pdfs, runVars, histVars, chunkVars, syncVars, safeVars, extractVars, pageVars,
      batchVars, mailVars>>

notExtractVars ==
    <<chunkVars, ingestVars, syncVars, safeVars, queryVars, pageVars, batchVars, mailVars>>

notPageVars ==
    <<chunkVars, ingestVars, syncVars, safeVars, queryVars, extractVars, batchVars, mailVars>>

notBatchVars ==
    <<chunkVars, ingestVars, syncVars, safeVars, queryVars, extractVars, pageVars, mailVars>>

notMailVars ==
    <<chunkVars, ingestVars, syncVars, safeVars, queryVars, extractVars, pageVars, batchVars>>

vars ==
    <<chunkVars, ingestVars, syncVars, safeVars, queryVars, extractVars, pageVars, batchVars,
      mailVars>>

(***************************************************************************)
(* Program constants                                                       *)
(***************************************************************************)
CHUNK_SIZE == 1000

CHUNK_OVERLAP == 200

\* batch_size, lines 354 and 459
batch_size == 100

\* the minimum article length, line 317
MinArticleLen == 100

(***************************************************************************)
(* Bounds of the model                                                     *)
(***************************************************************************)
\* the longest text handed to chunk_text in the chunker specification
MaxTextLen == 2300

\* the number of ingestion runs (full rebuilds and article adds) in a behaviour
MaxRuns == 3

\* the number of runs of sync_drive_pdfs in a behaviour
MaxSyncRuns == 2

\* the longest name handed to _safe_filename, the four names of the remote
\* files apart
MaxNameLen == 4

\* the number of pages of a PDF handed to extract_text_from_pdf
MaxPages == 2

(***************************************************************************)
(* Python helpers                                                          *)
(***************************************************************************)
Min(a, b) == IF a < b THEN a ELSE b

Max(a, b) == IF a > b THEN a ELSE b

MaxOf(S) == CHOOSE x \in S : \A y \in S : y <= x

EmptyText == [len |-> 0, dots |-> {}, sp |-> {}, nl |-> {}]

\* text[s:e] for 0 <= s
Slice(t, s, e) ==
    LET lo == Min(s, t.len)
        hi == Max(lo, Min(e, t.len))
    IN  [len  |-> hi - lo,
         dots |-> {p - lo : p \in {q \in t.dots : lo <= q /\ q < hi}},
         sp   |-> {p - lo : p \in {q \in t.sp : lo <= q /\ q < hi}},
         nl   |-> {p - lo : p \in {q \in t.nl : lo <= q /\ q < hi}}]

\* t.rfind('.')
Rfind(t) == IF t.dots = {} THEN -1 ELSE MaxOf(t.dots)

RECURSIVE LeadWs(_, _)
\* the first position >= p that holds no whitespace (t.len when there is none)
LeadWs(t, p) == IF p < t.len /\ p \in t.sp THEN LeadWs(t, p + 1) ELSE p

RECURSIVE TrailWs(_, _)
\* one past the last position < p that holds no whitespace (0 when there is none)
TrailWs(t, p) == IF p > 0 /\ (p - 1) \in t.sp THEN TrailWs(t, p - 1) ELSE p

\* t.strip()
Strip(t) ==
    LET lo == LeadWs(t, 0)
    IN  IF lo >= t.len THEN EmptyText ELSE Slice(t, lo, TrailWs(t, t.len))

(***************************************************************************)
(* chunk_text: one iteration of the while loop, lines 198-217              *)
(***************************************************************************)
\* line 204: is the last period far enough into the window to cut there
CutAtPeriod_any(last_period) == last_period >= 0

CutAtPeriod_ge(last_period) == last_period >= CHUNK_SIZE \div 2

CutAtPeriod(last_period) == last_period > CHUNK_SIZE \div 2

\* lines 198-206: the end of the window that starts at s
WindowEnd(t, s) ==
    LET content == Slice(t, s, s + CHUNK_SIZE)
        last_period == Rfind(content)
    IN  IF s + CHUNK_SIZE < t.len /\ CutAtPeriod(last_period)
        THEN s + last_period + 1
        ELSE s + CHUNK_SIZE

\* line 209: the id of a chunk
ChunkIdOf_noindex(name, idx) == name \o "_"

ChunkIdOf(name, idx) == name \o "_" \o ToString(idx)

\* lines 208-214: the record appended for the window [s, e)
ChunkRecord(t, name, type, idx, s, e) ==
    [id           |-> ChunkIdOf(name, idx),
     text         |-> Strip(Slice(t, s, e)),
     source       |-> name,
     source_type  |-> type,
     chunk_index  |-> idx]

\* line 217
NextStart_forward(end) == end + CHUNK_OVERLAP

NextStart(end) == end - CHUNK_OVERLAP

\* lines 198-217 on the loop state st = [start, chunk_id, chunks, windows]
ChunkBody(t, name, type, st) ==
    LET end == WindowEnd(t, st.start)
    IN  [start    |-> NextStart(end),
         chunk_id |-> st.chunk_id + 1,
         chunks   |-> Append(st.chunks, ChunkRecord(t, name, type, st.chunk_id, st.start, end)),
         windows  |-> Append(st.windows, <<st.start, end>>)]

ChunkStart == [start |-> 0, chunk_id |-> 0, chunks |-> <<>>, windows |-> <<>>]

RECURSIVE ChunkRun(_, _, _, _)
\* lines 197-219: the loop run to its end
ChunkRun(t, name, type, st) ==
    IF st.start < t.len THEN ChunkRun(t, name, type, ChunkBody(t, name, type, st)) ELSE st

\* chunk_text(text, source_name, source_type)
chunk_text(t, name, type) == ChunkRun(t, name, type, ChunkStart).chunks

(***************************************************************************)
(* Strings edited character by character                                   *)
(***************************************************************************)
RECURSIVE Join(_)
\* the string spelled by a sequence of characters
Join(cs) == IF cs = <<>> THEN "" ELSE Head(cs) \o Join(Tail(cs))

ReservedChars == {"\\", "/", ":", "*", "?", "\"", "<", ">", "|"}

WhitespaceChars == {" ", "\t", "\n"}

RECURSIVE DropWhile(_, _)
DropWhile(cs, class) ==
    IF cs # <<>> /\ Head(cs) \in class THEN DropWhile(Tail(cs), class) ELSE cs

RECURSIVE SubRuns(_, _, _)
\* re.sub('[class]+', repl, cs): every maximal run of class characters becomes repl
SubRuns(cs, class, repl) ==
    IF cs = <<>> THEN <<>>
    ELSE IF Head(cs) \in class
         THEN <<repl>> \o SubRuns(DropWhile(Tail(cs), class), class, repl)
         ELSE <<Head(cs)>> \o SubRuns(Tail(cs), class, repl)

RECURSIVE DropTrailing(_, _)
DropTrailing(cs, class) ==
    IF cs # <<>> /\ cs[Len(cs)] \in class
    THEN DropTrailing(SubSeq(cs, 1, Len(cs) - 1), class)
    ELSE cs

\* cs.strip()
StripChars(cs) == DropTrailing(DropWhile(cs, WhitespaceChars), WhitespaceChars)

_safe_filename_nocollapse(name) == StripChars(SubRuns(name, ReservedChars, "_"))

\* _safe_filename(name), lines 45-50
_safe_filename(name) ==
    StripChars(SubRuns(SubRuns(name, ReservedChars, "_"), WhitespaceChars, " "))

RECURSIVE ReplaceWww(_)
\* netloc.replace('www.', ''), line 292
ReplaceWww(cs) ==
    IF cs = <<>> THEN <<>>
    ELSE IF Len(cs) >= 4 /\ SubSeq(cs, 1, 4) = <<"w", "w", "w", ".">>
         THEN ReplaceWww(SubSeq(cs, 5, Len(cs)))
         ELSE <<Head(cs)>> \o ReplaceWww(Tail(cs))

(***************************************************************************)
(* Whitespace normalisation of document texts                              *)
(***************************************************************************)
\* t with the positions of R removed
DeletePositions(t, R) ==
    LET idx(p) == p - Cardinality({r \in R : r < p})
    IN  [len  |-> t.len - Cardinality(R),
         dots |-> {idx(p) : p \in t.dots \ R},
         sp   |-> {idx(p) : p \in t.sp \ R},
         nl   |-> {idx(p) : p \in t.nl \ R}]

\* ' '.join(t.split()), line 451: no leading or trailing whitespace, every
\* whitespace run becomes one space
NormalizeWhitespace(t) ==
    LET lead  == LeadWs(t, 0)
        trail == TrailWs(t, t.len)
        R     == {p \in t.sp : p < lead \/ p >= trail \/ (p - 1) \in t.sp}
        d     == DeletePositions(t, R)
    IN  [d EXCEPT !.nl = {}]

\* re.sub(r'\n{3,}', '\n\n', t), line 287
CollapseNewlines(t) ==
    DeletePositions(t, {p \in t.nl : (p - 1) \in t.nl /\ (p - 2) \in t.nl})

\* re.sub(r' {2,}', ' ', t), line 288
CollapseSpaces(t) ==
    DeletePositions(t, {p \in t.sp \ t.nl : (p - 1) \in (t.sp \ t.nl)})

\* t1 + sep + t2 where sep is n newlines
ConcatNl(t1, n, t2) ==
    LET off == t1.len + n
        seps == t1.len .. (off - 1)
    IN  [len  |-> off + t2.len,
         dots |-> t1.dots \cup {p + off : p \in t2.dots},
         sp   |-> t1.sp \cup seps \cup {p + off : p \in t2.sp},
         nl   |-> t1.nl \cup seps \cup {p + off : p \in t2.nl}]

RECURSIVE JoinParagraphs(_)
\* '\n\n'.join(ps), line 284
JoinParagraphs(ps) ==
    IF ps = <<>> THEN EmptyText
    ELSE IF Len(ps) = 1 THEN ps[1]
    ELSE ConcatNl(ps[1], 2, JoinParagraphs(Tail(ps)))

RECURSIVE LongParagraphs(_)
\* the paragraphs longer than 50 characters, line 284
LongParagraphs(ps) ==
    IF ps = <<>> THEN <<>>
    ELSE IF ps[1].len > 50 THEN <<ps[1]>> \o LongParagraphs(Tail(ps))
    ELSE LongParagraphs(Tail(ps))

(***************************************************************************)
(* extract_article_text on a fetched page, lines 243-302.  A page is what  *)
(* the HTML parser finds in it: the title candidates (empty when absent),  *)
(* and the get_text() of the first <article>, of the main/content          *)
(* container and of the <p> elements of <body>.                            *)
(***************************************************************************)
\* lines 246-257
ArticleTitle(page) ==
    LET t1 == page.title_tag
        t2 == IF page.og_title # <<>> THEN page.og_title ELSE t1
    IN  IF t2 # <<>> THEN t2 ELSE page.h1

\* lines 265-284
ArticleContent(page) ==
    LET a1 == IF page.article.present THEN page.article.text ELSE EmptyText
        a2 == IF (a1.len = 0 \/ a1.len < 500) /\ page.main.present
              THEN page.main.text ELSE a1
    IN  IF (a2.len = 0 \/ a2.len < 500) /\ page.body
        THEN JoinParagraphs(LongParagraphs(page.paragraphs))
        ELSE a2

\* lines 286-302: the returned dict
ExtractedArticle(url, page) ==
    [title  |-> StripChars(ArticleTitle(page)),
     text   |-> Strip(CollapseSpaces(CollapseNewlines(ArticleContent(page)))),
     url    |-> url,
     domain |-> ReplaceWww(page.netloc)]

\* line 317: too little content to index
TooShort_empty(a) == a.text.len = 0

TooShort(a) == a.text.len = 0 \/ a.text.len < MinArticleLen

\* lines 341-342
ArticleSourceName(a) ==
    LET safe_title == IF a.title # <<>>
                      THEN Join(_safe_filename(SubSeq(a.title, 1, Min(50, Len(a.title)))))
                      ELSE "untitled"
    IN  "[Article] " \o safe_title \o " (" \o Join(a.domain) \o ")"

\* line 454
BookSourceName(stem) == "[Book] " \o stem

(***************************************************************************)
(* The local PDF files.  A path is an index into the tables below, which   *)
(* list the resolved paths in sorted order (Path ordering compares the     *)
(* parts: "_drive" < "a.pdf" < "b.pdf" < "c.pdf").                         *)
(***************************************************************************)
BOOKS_DIR == "books"

DEFAULT_DRIVE_SYNC_DIR == "books/_drive"

PdfDir == <<"books/_drive", "books", "books", "books">>

PdfStem == <<"a", "a", "b", "c">>

\* what pymupdf finds in each file: readable or not, and the text of its pages
PdfFile ==
    <<[readable |-> TRUE,
       raw |-> [len |-> 300, dots |-> {120, 299}, sp |-> {50, 121}, nl |-> {}]],
      [readable |-> TRUE,
       raw |-> [len |-> 1504, dots |-> {902}, sp |-> {0, 1, 400, 401, 903, 904, 1503},
                nl |-> {401, 1503}]],
      [readable |-> FALSE, raw |-> EmptyText],
      [readable |-> TRUE,
       raw |-> [len |-> 600, dots |-> {599}, sp |-> {5, 6}, nl |-> {6}]]>>

Paths == 1..Len(PdfDir)

(***************************************************************************)
(* The web pages behind the article URLs                                   *)
(***************************************************************************)
Urls == {"u1", "u2", "u3", "u4"}

NoElement == [present |-> FALSE, text |-> EmptyText]

Element(t) == [present |-> TRUE, text |-> t]

Web ==
    [u \in Urls |->
        CASE u = "u1" ->
               [fetch_ok |-> TRUE, netloc |-> <<"w", "w", "w", ".", "d", ".", "o">>,
                title_tag |-> <<"t", ":", "1", " ">>, og_title |-> <<>>, h1 |-> <<"h">>,
                article |-> Element([len |-> 1200, dots |-> {700, 1199}, sp |-> {300, 701},
                                     nl |-> {701}]),
                main |-> NoElement, body |-> TRUE, paragraphs |-> <<>>]
          [] u = "u2" ->
               [fetch_ok |-> TRUE, netloc |-> <<"d", ".", "o">>,
                title_tag |-> <<"x">>, og_title |-> <<"t", "?", "1">>, h1 |-> <<>>,
                article |-> Element([len |-> 40, dots |-> {39}, sp |-> {}, nl |-> {}]),
                main |-> Element([len |-> 152, dots |-> {151}, sp |-> {60, 61, 62},
                                  nl |-> {}]),
                body |-> TRUE,
                paragraphs |-> <<[len |-> 70, dots |-> {69}, sp |-> {}, nl |-> {}],
                                 [len |-> 20, dots |-> {19}, sp |-> {}, nl |-> {}],
                                 [len |-> 58, dots |-> {57}, sp |-> {}, nl |-> {}]>>]
          [] u = "u3" ->
               [fetch_ok |-> TRUE, netloc |-> <<"e", ".", "o">>,
                title_tag |-> <<>>, og_title |-> <<>>, h1 |-> <<>>,
                article |-> Element([len |-> 120, dots |-> {119}, sp |-> {}, nl |-> {}]),
                main |-> NoElement, body |-> TRUE,
                paragraphs |-> <<[len |-> 99, dots |-> {98}, sp |-> {}, nl |-> {}],
                                 [len |-> 30, dots |-> {}, sp |-> {}, nl |-> {}]>>]
          [] OTHER ->
               [fetch_ok |-> FALSE, netloc |-> <<"f", ".", "o">>,
                title_tag |-> <<>>, og_title |-> <<>>, h1 |-> <<>>,
                article |-> NoElement, main |-> NoElement, body |-> FALSE,
                paragraphs |-> <<>>]]

(***************************************************************************)
(* The vector index.  A collection holds entries [id, document, metadata]  *)
(* keyed by id.  collection.add inserts the entries whose id is new and    *)
(* leaves an entry whose id is already there as it is (chromadb's add      *)
(* never overwrites; upsert is a different call that the code does not     *)
(* make); any call on the index may also fail, which the actions below     *)
(* draw as a nondeterministic outcome.                                     *)
(***************************************************************************)
NoCollection == [exists |-> FALSE, items |-> {}]

EmptyCollection == [exists |-> TRUE, items |-> {}]

Range(f) == {f[i] : i \in DOMAIN f}

Ids(items) == {e.id : e \in items}

\* collection.add(ids, documents, metadatas) of lines 357 and 462, when it succeeds
CollectionAdd(items, entries) ==
    items \cup {e \in Range(entries) : e.id \notin Ids(items)}

\* lines 463-465: the entry of a book chunk
BookEntry(c) ==
    [id |-> c.id, document |-> c.text,
     metadata |-> [source |-> c.source, source_type |-> c.source_type,
                   chunk_index |-> c.chunk_index]]

\* lines 358-365: the entry of an article chunk
ArticleEntry(c) ==
    [id |-> c.id, document |-> c.text,
     metadata |-> [source |-> c.source, source_type |-> c.source_type,
                   url |-> c.url, chunk_index |-> c.chunk_index]]

Batch_overlapping(cs, i) == SubSeq(cs, Max(i, 1), Min(i + batch_size, Len(cs)))

\* chunks[i:i + batch_size], lines 356 and 461
Batch(cs, i) == SubSeq(cs, i + 1, Min(i + batch_size, Len(cs)))

\* lines 463-465: the entries of a batch of book chunks
BookEntries(cs) == [k \in DOMAIN cs |-> BookEntry(cs[k])]

\* lines 358-365: the entries of a batch of article chunks
ArticleEntries(cs) == [k \in DOMAIN cs |-> ArticleEntry(cs[k])]

(***************************************************************************)
(* ingest_books, lines 378-477                                             *)
(***************************************************************************)
RECURSIVE SortedSeq(_)
\* sorted(S)
SortedSeq(S) ==
    IF S = {} THEN <<>>
    ELSE LET m == CHOOSE x \in S : \A y \in S : x <= y
         IN  <<m>> \o SortedSeq(S \ {m})

\* dir.glob("*.pdf") over the files present
Glob(present, dir) == SortedSeq({p \in present : PdfDir[p] = dir})

\* lines 404-410: the two listings, deduplicated by resolved path and sorted
ListPdfs_listed(present, drive_dest_dir) ==
    Glob(present, BOOKS_DIR) \o Glob(present, drive_dest_dir)

ListPdfs(present, drive_dest_dir) ==
    SortedSeq(Range(Glob(present, BOOKS_DIR) \o Glob(present, drive_dest_dir)))

\* lines 448-455: the chunks of one PDF
BookChunks(p) ==
    chunk_text(NormalizeWhitespace(PdfFile[p].raw), BookSourceName(PdfStem[p]), "book")

\* the run has ended with result o
EndRun(o) ==
    /\ ipc' = "idle"
    /\ outcome' = o

EarlyStop_lenient(sync_drive, folder_id, sync_ok, dir_there, listing) ==
    IF sync_drive /\ ~folder_id THEN "rb_no_folder_id"
    ELSE IF ~dir_there THEN "rb_no_books_dir"
    ELSE IF listing = <<>> THEN "rb_no_pdfs"
    ELSE "none"

\* lines 385-415: the four returns before the index is opened, "none" when
\* the run goes on
EarlyStop(sync_drive, folder_id, sync_ok, dir_there, listing) ==
    IF sync_drive /\ ~folder_id THEN "rb_no_folder_id"
    ELSE IF sync_drive /\ folder_id /\ ~sync_ok THEN "rb_sync_failed"
    ELSE IF ~dir_there THEN "rb_no_books_dir"
    ELSE IF listing = <<>> THEN "rb_no_pdfs"
    ELSE "none"

\* lines 378-417: the optional Drive sync, the directory checks and the
\* listing.  The inputs of the run are its arguments and the local files
\* it finds: between runs the user adds and removes PDFs, so the files on
\* disk when the run starts (on_disk, dir_exists) are any.  The sync itself
\* is sync_drive_pdfs (modelled step by step in the synchronizer
\* specification); here it is its effect on the local files: it raises or
\* returns, having added any files to drive_dest_dir.
RebuildStart ==
    /\ ipc = "idle"
    /\ runs < MaxRuns
    /\ runs' = runs + 1
    /\ \E sync_drive \in BOOLEAN, drive_dest_dir \in {DEFAULT_DRIVE_SYNC_DIR, BOOKS_DIR},
          on_disk \in SUBSET Paths :
       \E folder_id \in (IF sync_drive THEN BOOLEAN ELSE {FALSE}),
          dir_exists \in (IF on_disk = {} THEN BOOLEAN ELSE {TRUE}) :
       \E sync_ok \in (IF sync_drive /\ folder_id THEN BOOLEAN ELSE {TRUE}),
          added \in (IF sync_drive /\ folder_id
                     THEN {{}} \cup {{p} : p \in {q \in Paths \ on_disk :
                                                     PdfDir[q] = drive_dest_dir}}
                     ELSE {{}}) :
          LET syncing   == sync_drive /\ folder_id
              present   == on_disk \cup added
              dir_there == dir_exists \/ added # {}
              listing   == ListPdfs(present, drive_dest_dir)
              stop      == EarlyStop(sync_drive, folder_id, sync_ok, dir_there, listing)
          IN  /\ pdfs' = present
              /\ books_dir' = IF sync_drive /\ ~folder_id THEN dir_exists
                               ELSE IF syncing /\ ~sync_ok THEN dir_there
                               ELSE TRUE
              /\ IF stop # "none"
                 THEN EndRun(stop)
                 ELSE /\ ipc' = "rb_open"
                      /\ outcome' = "running"
              /\ pdf_files' = IF stop \in {"rb_no_folder_id", "rb_sync_failed",
                                            "rb_no_books_dir"}
                              THEN <<>> ELSE listing
              /\ sync_failed' = (syncing /\ ~sync_ok)
    /\ before' = collection
    /\ index_calls' = <<>>
    /\ created' = FALSE
    /\ ret' = -1
    /\ doc_i' = 0
    /\ cur_chunks' = <<>>
    /\ batch_i' = 0
    /\ total_chunks' = 0
    /\ extracted' = <<>>
    /\ UNCHANGED <<collection, article, run_url, handed, notIngestVars>>

FreshCollection_keeping(coll, delete_ok, create_ok) ==
    [ok |-> TRUE, coll |-> IF coll.exists THEN coll ELSE EmptyCollection]

\* lines 428-440: delete_collection inside try/except-pass, then
\* create_collection, which raises when the collection is (still) there
FreshCollection(coll, delete_ok, create_ok) ==
    LET dropped == IF delete_ok THEN NoCollection ELSE coll
    IN  IF ~dropped.exists /\ create_ok
        THEN [ok |-> TRUE, coll |-> EmptyCollection]
        ELSE [ok |-> FALSE, coll |-> dropped]

\* lines 419-440: open the client, drop the collection, create it anew
RebuildOpen ==
    /\ ipc = "rb_open"
    /\ \E client_ok \in BOOLEAN, delete_ok \in BOOLEAN, create_ok \in BOOLEAN :
          LET r == FreshCollection(collection, delete_ok /\ collection.exists, create_ok)
          IN  IF ~client_ok
              THEN /\ index_calls' = index_calls \o <<"client">>
                   /\ EndRun("rb_aborted")
                   /\ UNCHANGED <<collection, created, handed, doc_i>>
              ELSE /\ index_calls' = index_calls
                                      \o <<"client", "delete_collection", "create_collection">>
                   /\ collection' = r.coll
                   /\ created' = r.ok
                   /\ handed' = IF r.coll.items = {} THEN {} ELSE handed
                   /\ IF r.ok
                      THEN /\ ipc' = "rb_doc"
                           /\ doc_i' = 1
                           /\ UNCHANGED outcome
                      ELSE /\ EndRun("rb_aborted")
                           /\ UNCHANGED doc_i
    /\ UNCHANGED <<books_dir, pdfs, ret, pdf_files, cur_chunks, batch_i, total_chunks,
                   article, runs, run_url, before, extracted, sync_failed, notIngestVars>>

\* lines 444-456: extract, normalise and chunk the next PDF; an exception of
\* extract_text_from_pdf is not caught
RebuildExtract ==
    /\ ipc = "rb_doc"
    /\ LET p == pdf_files[doc_i]
       IN  IF PdfFile[p].readable
           THEN /\ cur_chunks' = BookChunks(p)
                /\ batch_i' = 0
                /\ ipc' = "rb_add"
                /\ UNCHANGED outcome
           ELSE /\ EndRun("rb_aborted")
                /\ UNCHANGED <<cur_chunks, batch_i>>
    /\ extracted' = Append(extracted, pdf_files[doc_i])
    /\ UNCHANGED <<worldVars, ret, pdf_files, doc_i, total_chunks, article, runs, run_url,
                   before, index_calls, created, handed, sync_failed, notIngestVars>>

\* lines 460-467: one pass of the batch loop; a failing add is not caught
RebuildAddBatch ==
    /\ ipc = "rb_add"
    /\ batch_i < Len(cur_chunks)
    /\ index_calls' = Append(index_calls, "add")
    /\ \E add_ok \in BOOLEAN :
          LET batch == Batch(cur_chunks, batch_i)
          IN  IF add_ok
              THEN /\ collection' = [collection EXCEPT
                                        !.items = CollectionAdd(@, BookEntries(batch))]
                   /\ handed' = handed \cup {[id |-> c.id, doc |-> <<"pdf", pdf_files[doc_i]>>] :
                                                c \in Range(batch)}
                   /\ batch_i' = batch_i + batch_size
                   /\ UNCHANGED <<ipc, outcome>>
              ELSE /\ EndRun("rb_aborted")
                   /\ UNCHANGED <<collection, handed, batch_i>>
    /\ UNCHANGED <<books_dir, pdfs, ret, pdf_files, doc_i, cur_chunks, total_chunks, article,
                   runs, run_url, before, created, extracted, sync_failed,
                   notIngestVars>>

\* lines 460, 469 and 444: the batch loop ends; on to the next PDF, or the
\* run is complete (lines 471-477)
RebuildDocDone ==
    /\ ipc = "rb_add"
    /\ ~(batch_i < Len(cur_chunks))
    /\ total_chunks' = total_chunks + Len(cur_chunks)
    /\ IF doc_i < Len(pdf_files)
       THEN /\ doc_i' = doc_i + 1
            /\ ipc' = "rb_doc"
            /\ UNCHANGED outcome
       ELSE /\ EndRun("rb_complete")
            /\ UNCHANGED doc_i
    /\ UNCHANGED <<worldVars, ret, pdf_files, cur_chunks, batch_i, article, runs, histVars,
                   notIngestVars>>

(***************************************************************************)
(* add_article_to_knowledge_base, lines 305-375                            *)
(***************************************************************************)
\* lines 314-319: fetch and extract (a failed fetch raises, lines 237-241),
\* then the length check
ArticleStart ==
    /\ ipc = "idle"
    /\ runs < MaxRuns
    /\ runs' = runs + 1
    /\ \E url \in Urls :
          LET page == Web[url]
              a    == ExtractedArticle(url, page)
          IN  /\ run_url' = url
              /\ IF ~page.fetch_ok
                 THEN /\ EndRun("art_fetch_failed")
                      /\ ret' = -1
                      /\ UNCHANGED article
                 ELSE IF TooShort(a)
                 THEN /\ EndRun("art_short")
                      /\ ret' = 0
                      /\ article' = a
                 ELSE /\ ipc' = "art_open"
                      /\ outcome' = "running"
                      /\ ret' = -1
                      /\ article' = a
    /\ before' = collection
    /\ index_calls' = <<>>
    /\ created' = FALSE
    /\ cur_chunks' = <<>>
    /\ batch_i' = 0
    /\ sync_failed' = FALSE
    /\ UNCHANGED <<worldVars, pdf_files, doc_i, total_chunks, handed, extracted,
                   notIngestVars>>

\* lines 329-338: get_collection inside try/except, else create_collection
ArticleCollection_fresh(coll, get_ok, create_ok) ==
    [ok |-> create_ok, created |-> create_ok,
     coll |-> IF create_ok THEN EmptyCollection ELSE coll,
     calls |-> <<"delete_collection", "create_collection">>]

ArticleCollection(coll, get_ok, create_ok) ==
    IF get_ok /\ coll.exists
    THEN [ok |-> TRUE, created |-> FALSE, coll |-> coll, calls |-> <<"get_collection">>]
    ELSE IF ~coll.exists /\ create_ok
    THEN [ok |-> TRUE, created |-> TRUE, coll |-> EmptyCollection,
          calls |-> <<"get_collection", "create_collection">>]
    ELSE [ok |-> FALSE, created |-> FALSE, coll |-> coll,
          calls |-> <<"get_collection", "create_collection">>]

\* lines 345-351: the chunks of the article, each with the url
ArticleChunks(a) ==
    LET cs == chunk_text(a.text, ArticleSourceName(a), "article")
    IN  [k \in DOMAIN cs |->
            [id |-> cs[k].id, text |-> cs[k].text, source |-> cs[k].source,
             source_type |-> cs[k].source_type, chunk_index |-> cs[k].chunk_index,
             url |-> a.url]]

\* lines 321-351: open the client, get or create the collection, chunk
ArticleOpen ==
    /\ ipc = "art_open"
    /\ \E client_ok \in BOOLEAN, get_ok \in BOOLEAN, create_ok \in BOOLEAN :
          LET r == ArticleCollection(collection, get_ok, create_ok)
          IN  IF ~client_ok
              THEN /\ index_calls' = index_calls \o <<"client">>
                   /\ EndRun("art_aborted")
                   /\ UNCHANGED <<collection, created, handed, cur_chunks>>
              ELSE /\ index_calls' = index_calls \o <<"client">> \o r.calls
                   /\ collection' = r.coll
                   /\ created' = r.created
                   /\ handed' = IF r.created THEN {} ELSE handed
                   /\ IF r.ok
                      THEN /\ cur_chunks' = ArticleChunks(article)
                           /\ ipc' = "art_add"
                           /\ UNCHANGED outcome
                      ELSE /\ EndRun("art_aborted")
                           /\ UNCHANGED cur_chunks
    /\ UNCHANGED <<books_dir, pdfs, ret, pdf_files, doc_i, batch_i, total_chunks, article,
                   runs, run_url, before, extracted, sync_failed, notIngestVars>>

\* lines 355-366: one pass of the batch loop; a failing add is not caught
ArticleAddBatch ==
    /\ ipc = "art_add"
    /\ batch_i < Len(cur_chunks)
    /\ index_calls' = Append(index_calls, "add")
    /\ \E add_ok \in BOOLEAN :
          LET batch == Batch(cur_chunks, batch_i)
          IN  IF add_ok
              THEN /\ collection' = [collection EXCEPT
                                        !.items = CollectionAdd(@, ArticleEntries(batch))]
                   /\ handed' = handed \cup {[id |-> c.id, doc |-> <<"url", run_url>>] :
                                                c \in Range(batch)}
                   /\ batch_i' = batch_i + batch_size
                   /\ UNCHANGED <<ipc, outcome>>
              ELSE /\ EndRun("art_aborted")
                   /\ UNCHANGED <<collection, handed, batch_i>>
    /\ UNCHANGED <<books_dir, pdfs, ret, pdf_files, doc_i, cur_chunks, total_chunks, article,
                   runs, run_url, before, created, extracted, sync_failed,
                   notIngestVars>>

\* lines 355 and 368-375: the batch loop ends, the count is returned
ArticleDone ==
    /\ ipc = "art_add"
    /\ ~(batch_i < Len(cur_chunks))
    /\ EndRun("art_added")
    /\ ret' = Len(cur_chunks)
    /\ UNCHANGED <<worldVars, pdf_files, doc_i, cur_chunks, batch_i, total_chunks, article,
                   runs, histVars, notIngestVars>>

\* no ingestion run in progress, none made yet
IngestRunIdle ==
    /\ books_dir = FALSE
    /\ pdfs = {}
    /\ ipc = "idle"
    /\ outcome = "none"
    /\ ret = -1
    /\ pdf_files = <<>>
    /\ doc_i = 0
    /\ cur_chunks = <<>>
    /\ batch_i = 0
    /\ total_chunks = 0
    /\ article = [title |-> <<>>, text |-> EmptyText, url |-> "", domain |-> <<>>]
    /\ runs = 0
    /\ run_url = ""
    /\ before = NoCollection
    /\ index_calls = <<>>
    /\ created = FALSE
    /\ handed = {}
    /\ extracted = <<>>
    /\ sync_failed = FALSE

\* no run in progress, nothing ingested yet
IngestIdle == collection = NoCollection /\ IngestRunIdle

\* no call of chunk_text under way
ChunkIdle ==
    /\ text = EmptyText
    /\ source_name = ""
    /\ source_type = ""
    /\ start = 0
    /\ chunk_id = 0
    /\ chunks = <<>>
    /\ windows = <<>>
    /\ cpc = "returned"

\* no query made
QueryIdle ==
    /\ q_site = "none"
    /\ q_results = [ok |-> FALSE, hits |-> <<>>]
    /\ q_out = [raised |-> FALSE, kind |-> "none", entries |-> <<>>]
    /\ q_start = NoCollection

\* no call of extract_text_from_pdf under way
ExtractIdle ==
    /\ x_pdf = [openable |-> FALSE, pages |-> <<>>, fails_at |-> 0]
    /\ x_pc = "idle"
    /\ x_doc = "none"
    /\ x_text = EmptyText
    /\ x_page = 0
    /\ x_closes = 0
    /\ x_error = "none"
    /\ x_chunks = <<>>

\* no call of extract_article_text under way
PageIdle ==
    /\ pg_doc = [fetch_ok |-> FALSE]
    /\ pg_out = [title |-> <<>>]
    /\ pg_pc = "idle"

\* no batch loop under way
BatchIdle ==
    /\ bt_mode = "none"
    /\ bt_docs = <<>>
    /\ bt_d = 0
    /\ bt_i = 0
    /\ bt_items = {}
    /\ bt_calls = <<>>
    /\ bt_pc = "idle"

\* no call of GmailDraftTool._run under way
MailIdle ==
    /\ gm_input = <<>>
    /\ gm_service = "none"
    /\ gm_pc = "idle"
    /\ gm_calls = <<>>
    /\ gm_draft = [present |-> FALSE]
    /\ gm_out = [kind |-> "none", reason |-> "none"]

\* no call of _safe_filename under way
SafeIdle ==
    /\ sf_name = <<>>
    /\ sf_out = <<>>
    /\ sf_again = <<>>
    /\ sf_pc = "idle"

(***************************************************************************)
(* The Drive synchronizer, lines 78-164.  A remote file is the dict the    *)
(* listing returns for it, [id, name, size, modifiedTime], together with   *)
(* the number of bytes get_media serves for it.  A key the listing leaves  *)
(* out is NoName, NoSize or a timestamp of kind "missing".  A timestamp is *)
(* [kind, wall, off]: the wall-clock time it spells and its UTC offset;    *)
(* kind "zulu" has the suffix Z, kind "offset" a numeric offset, and kind  *)
(* "garbled" is a string that datetime.fromisoformat rejects.              *)
(***************************************************************************)
NoName == <<"<no name>">>

NoSize == -1

NoTimestamp == [kind |-> "missing", wall |-> 0, off |-> 0]

Garbled == [kind |-> "garbled", wall |-> 0, off |-> 0]

Zulu(t) == [kind |-> "zulu", wall |-> t, off |-> 0]

Offset(t, o) == [kind |-> "offset", wall |-> t, off |-> o]

\* the printable ASCII characters in code-point order (the grave accent,
\* which a TLA+ string cannot hold, is spelled out)
Ascii ==
    <<" ", "!", "\"", "#", "$", "%", "&", "'", "(", ")", "*", "+", ",", "-", ".", "/",
      "0", "1", "2", "3", "4", "5", "6", "7", "8", "9", ":", ";", "<", "=", ">", "?",
      "@", "A", "B", "C", "D", "E", "F", "G", "H", "I", "J", "K", "L", "M", "N", "O",
      "P", "Q", "R", "S", "T", "U", "V", "W", "X", "Y", "Z", "[", "\\", "]", "^", "_",
      "grave", "a", "b", "c", "d", "e", "f", "g", "h", "i", "j", "k", "l", "m", "n", "o",
      "p", "q", "r", "s", "t", "u", "v", "w", "x", "y", "z", "{", "|", "}", "~">>

\* ord(c)
Ord(c) == 31 + (CHOOSE i \in 1..Len(Ascii) : Ascii[i] = c)

\* c.lower()
LowerChar(c) == IF Ord(c) >= 65 /\ Ord(c) <= 90 THEN Ascii[Ord(c) + 32 - 31] ELSE c

\* cs.lower()
Lower(cs) == [i \in 1..Len(cs) |-> LowerChar(cs[i])]

RECURSIVE StrLess(_, _)
\* a < b on strings: lexicographic by code point
StrLess(a, b) ==
    IF b = <<>> THEN FALSE
    ELSE IF a = <<>> THEN TRUE
    ELSE IF Head(a) # Head(b) THEN Ord(Head(a)) < Ord(Head(b))
    ELSE StrLess(Tail(a), Tail(b))

\* the sort key of line 102: f.get("name", "").lower()
NameKey(f) == IF f.name = NoName THEN <<>> ELSE Lower(f.name)

RECURSIVE InsertByName(_, _)
\* f put into the sorted list fs behind every file whose key is not greater
InsertByName(fs, f) ==
    IF fs = <<>> THEN <<f>>
    ELSE IF StrLess(NameKey(f), NameKey(Head(fs))) THEN <<f>> \o fs
    ELSE <<Head(fs)>> \o InsertByName(Tail(fs), f)

RECURSIVE SortByName(_)
\* sorted(files, key=...), line 102: a stable sort
SortByName(fs) ==
    IF fs = <<>> THEN <<>>
    ELSE InsertByName(SortByName(SubSeq(fs, 1, Len(fs) - 1)), fs[Len(fs)])

\* list_pdfs_in_drive_folder, lines 78-102
list_pdfs_in_drive_folder(folder) == SortByName(folder)

DotPdf == <<".", "p", "d", "f">>

EndsWith(cs, suffix) ==
    Len(cs) >= Len(suffix) /\ SubSeq(cs, Len(cs) - Len(suffix) + 1, Len(cs)) = suffix

\* lines 129-132: the file name under dest_dir
DestName(f) ==
    LET name == _safe_filename(IF f.name = NoName
                               THEN <<"u", "n", "k", "n", "o", "w", "n">> \o DotPdf
                               ELSE f.name)
    IN  Join(IF EndsWith(Lower(name), DotPdf) THEN name ELSE name \o DotPdf)

\* line 134: int(f.get("size") or 0)
RemoteSize(f) == IF f.size = NoSize THEN 0 ELSE f.size

_parse_rfc3339_lenient(ts) ==
    IF ts.kind = "garbled" THEN [ok |-> TRUE, t |-> 99]
    ELSE [ok |-> TRUE, t |-> ts.wall - ts.off]

\* _parse_rfc3339, lines 52-56: the instant, in UTC, or the failure to parse
_parse_rfc3339(ts) ==
    IF ts.kind = "garbled" THEN [ok |-> FALSE, t |-> 0]
    ELSE IF ts.kind = "zulu" THEN [ok |-> TRUE, t |-> ts.wall - 0]
    ELSE [ok |-> TRUE, t |-> ts.wall - ts.off]

\* a local file: its size, its modification time and the remote file whose
\* bytes it holds ("" for a file that no sync run of the behaviour wrote)
NoFile == [exists |-> FALSE, size |-> 0, mtime |-> 0, content |-> ""]

LocalFile(size, mtime, content) ==
    [exists |-> TRUE, size |-> size, mtime |-> mtime, content |-> content]

\* line 141
SizeDiffers(local_size, remote_size) == local_size # remote_size

LocalOlder_ne(local_dt, remote_dt) == local_dt # remote_dt

\* line 150
LocalOlder(local_dt, remote_dt) == local_dt < remote_dt

ShouldDownload_unforced(f, lf, frc, stat_ok) ==
    LET sd1 == ~lf.exists
        sd2 == IF ~sd1 /\ RemoteSize(f) # 0
               THEN (IF stat_ok THEN SizeDiffers(lf.size, RemoteSize(f)) ELSE TRUE)
               ELSE sd1
        remote_dt == _parse_rfc3339(f.modifiedTime)
    IN  IF ~sd2 /\ f.modifiedTime.kind # "missing"
        THEN (IF remote_dt.ok /\ stat_ok THEN LocalOlder(lf.mtime, remote_dt.t) ELSE FALSE)
        ELSE sd2

\* lines 137-154: should_download for the file f, the local file lf at its
\* destination and the outcome stat_ok of dest_path.stat()
ShouldDownload(f, lf, frc, stat_ok) ==
    LET remote_size  == RemoteSize(f)
        remote_mtime == f.modifiedTime
        sd1 == frc \/ ~lf.exists
        sd2 == IF ~sd1 /\ remote_size # 0 /\ lf.exists
               THEN (IF stat_ok THEN SizeDiffers(lf.size, remote_size) ELSE TRUE)
               ELSE sd1
        remote_dt == _parse_rfc3339(remote_mtime)
    IN  IF ~sd2 /\ remote_mtime.kind # "missing" /\ lf.exists
        THEN (IF remote_dt.ok /\ stat_ok THEN LocalOlder(lf.mtime, remote_dt.t) ELSE FALSE)
        ELSE sd2

\* the names, sizes and modified times of the remote files of the model
Name1 == <<"M", "y", ":", "B", "o", "o", "k", "?", ".", "p", "d", "f">>

Name2 == <<"M", "y", "_", "B", "o", "o", "k", "_", ".", "p", "d", "f">>

Name3 == <<"b">>

Name4 == <<"B">>

RemoteSizes == {NoSize, 0, 300, 500}

Timestamps == {NoTimestamp, Garbled, Zulu(10), Offset(22, 2)}

\* the bytes served for a file: as many as the listing says, when it says so
ServedBytes(size) == IF size = NoSize THEN 300 ELSE size

RemoteFile(id, name, size, ts) ==
    [id |-> id, name |-> name, size |-> size, modifiedTime |-> ts,
     bytes |-> ServedBytes(size)]

FirstFiles ==
    {RemoteFile("f1", n, s, ts) : n \in {Name1, Name3}, s \in RemoteSizes, ts \in Timestamps}

SecondFiles == {RemoteFile("f2", n, 300, Zulu(10)) : n \in {Name2, Name4, NoName}}

\* the first file of a folder that holds two
PairedFiles == {RemoteFile("f1", n, 500, Zulu(10)) : n \in {Name1, Name3}}

\* the folders of the model, in the order the API lists them: empty, one
\* file, or two files
Folders ==
    {<<>>} \cup {<<f>> : f \in FirstFiles}
           \cup {<<f, g>> : f \in PairedFiles, g \in SecondFiles}
           \cup {<<g, f>> : f \in {RemoteFile("f1", Name3, 500, Zulu(10))}, g \in SecondFiles}

DestNames == {DestName(f) : f \in FirstFiles \cup SecondFiles}

\* the files found in dest_dir when the behaviour starts
LocalFiles == {LocalFile(s, m, "") : s \in {300, 500}, m \in {10, 20}}

Clocks == {15, 30}

\* what is kept of a sync run: whether it returned, its force argument, the
\* list it returned and whether it could read every local copy it looked at
NoRun == [completed |-> FALSE, force |-> FALSE, downloaded |-> <<>>, stat_ok |-> TRUE]

\* no sync run under way, nothing in the folder or in dest_dir
SyncIdle ==
    /\ remote = <<>>
    /\ local = [d \in DestNames |-> NoFile]
    /\ now = 0
    /\ force = FALSE
    /\ files = <<>>
    /\ fi = 0
    /\ downloaded = <<>>
    /\ spc = "idle"
    /\ sync_runs = 0
    /\ decisions = <<>>
    /\ prev_run = NoRun

SyncInit ==
    /\ remote \in Folders
    /\ \E d \in {DestName(f) : f \in FirstFiles}, lf \in LocalFiles \cup {NoFile} :
           local = [x \in DestNames |-> IF x = d THEN lf ELSE NoFile]
    /\ now \in Clocks
    /\ force = FALSE
    /\ files = <<>>
    /\ fi = 0
    /\ downloaded = <<>>
    /\ spc = "idle"
    /\ sync_runs = 0
    /\ decisions = <<>>
    /\ prev_run = NoRun
    /\ IngestIdle
    /\ ChunkIdle
    /\ SafeIdle
    /\ QueryIdle
    /\ ExtractIdle
    /\ PageIdle
    /\ BatchIdle
    /\ MailIdle

\* lines 117-126: the call, up to the for loop
SyncStart ==
    /\ spc \in {"idle", "returned", "raised"}
    /\ sync_runs < MaxSyncRuns
    /\ sync_runs' = sync_runs + 1
    /\ prev_run' = (IF spc = "returned"
                    THEN [completed |-> TRUE, force |-> force, downloaded |-> downloaded,
                          stat_ok |-> \A i \in 1..Len(decisions) : decisions[i].stat_ok]
                    ELSE NoRun)
    /\ decisions' = <<>>
    /\ downloaded' = <<>>
    /\ fi' = 1
    /\ \E frc \in BOOLEAN, service_ok \in BOOLEAN :
           /\ force' = frc
           /\ IF ~service_ok
              THEN /\ files' = <<>>
                   /\ spc' = "raised"
              ELSE /\ files' = list_pdfs_in_drive_folder(remote)
                   /\ spc' = (IF files' = <<>> THEN "returned" ELSE "loop")
    /\ UNCHANGED <<remote, local, now, notSyncVars>>

\* download_drive_file, lines 104-113: the local file it leaves behind
DownloadedFile(f, lf, dl) ==
    IF dl = "ok" THEN LocalFile(f.bytes, now, f.id)
    ELSE IF dl = "cut" THEN LocalFile(0, now, "")
    ELSE lf

\* one pass through the loop body, lines 128-162
SyncFile ==
    /\ spc = "loop"
    /\ fi <= Len(files)
    /\ LET f    == files[fi]
           dest == DestName(f)
           lf   == local[dest]
       IN  \E stat_ok \in (IF lf.exists /\ ~force THEN BOOLEAN ELSE {TRUE}) :
               LET sd == ShouldDownload(f, lf, force, stat_ok)
               IN  \E dl \in (IF sd THEN {"ok", "refused", "cut"} ELSE {"none"}) :
                       /\ local' = [local EXCEPT ![dest] = DownloadedFile(f, lf, dl)]
                       /\ decisions' = Append(decisions,
                              [f |-> f, dest |-> dest, local |-> lf, stat_ok |-> stat_ok,
                               should_download |-> sd, download |-> dl])
                       /\ IF dl \in {"refused", "cut"}
                          THEN /\ spc' = "raised"
                               /\ UNCHANGED <<downloaded, fi>>
                          ELSE /\ downloaded' = Append(downloaded, dest)
                               /\ fi' = fi + 1
                               /\ UNCHANGED spc
    /\ UNCHANGED <<remote, now, force, files, sync_runs, prev_run, notSyncVars>>

\* line 164
SyncReturn ==
    /\ spc = "loop"
    /\ fi > Len(files)
    /\ spc' = "returned"
    /\ UNCHANGED <<remote, local, now, force, files, fi, downloaded, sync_runs, decisions,
                   prev_run, notSyncVars>>

SyncNext == SyncStart \/ SyncFile \/ SyncReturn

SpecSync == SyncInit /\ [][SyncNext]_vars

(***************************************************************************)
(* _safe_filename on its own, lines 45-50: the function is applied to a    *)
(* name and then to its own result.                                        *)
(***************************************************************************)
\* the characters of the names: a letter, the dot, two reserved characters,
\* the underscore and two whitespace characters
NameChars == {"a", ".", ":", "?", "_", " ", "\t"}

\* the names of at most n characters
NamesUpTo(n) == UNION {[1..k -> NameChars] : k \in 0..n}

SafeInputs == NamesUpTo(MaxNameLen) \cup {Name1, Name2, Name3, Name4}

SafeInit ==
    /\ sf_name \in SafeInputs
    /\ sf_out = <<>>
    /\ sf_again = <<>>
    /\ sf_pc = "call"
    /\ IngestIdle
    /\ ChunkIdle
    /\ SyncIdle
    /\ QueryIdle
    /\ ExtractIdle
    /\ PageIdle
    /\ BatchIdle
    /\ MailIdle

SafeCall ==
    /\ sf_pc = "call"
    /\ sf_out' = _safe_filename(sf_name)
    /\ sf_pc' = "once"
    /\ UNCHANGED <<sf_name, sf_again, notSafeVars>>

SafeCallAgain ==
    /\ sf_pc = "once"
    /\ sf_again' = _safe_filename(sf_out)
    /\ sf_pc' = "twice"
    /\ UNCHANGED <<sf_name, sf_out, notSafeVars>>

SafeNext == SafeCall \/ SafeCallAgain

SpecSafe == SafeInit /\ [][SafeNext]_vars

(***************************************************************************)
(* Retrieval: KnowledgeSearchTool._run (topic_expert_agent.py, lines       *)
(* 39-61) and test_query (ingest_books.py, lines 480-496) over the stored  *)
(* collection.  The index ranks by embedding distance, which the model     *)
(* leaves open: a query may return any ranking of the right length.        *)
(***************************************************************************)
\* n_results of the two call sites (line 47 of the tool, line 491)
ToolK == 5

TestK == 3

\* doc[:300], line 496
PreviewLen == 300

RECURSIVE Rankings(_, _)
\* the sequences of n distinct entries of items
Rankings(items, n) ==
    IF n = 0 THEN {<<>>}
    ELSE UNION {{<<e>> \o r : r \in Rankings(items \ {e}, n - 1)} : e \in items}

get_collection_or_create(coll, ok) ==
    [ok |-> ok, coll |-> IF coll.exists THEN coll ELSE EmptyCollection]

\* client.get_collection(COLLECTION_NAME, ...): fails when there is none
get_collection(coll, ok) == [ok |-> ok /\ coll.exists, coll |-> coll]

\* collection.query(query_texts=[query], n_results=k): the k nearest entries,
\* or all of them when there are fewer
QueryResults(coll, k) == Rankings(coll.items, Min(k, Cardinality(coll.items)))

\* metadata.get('source', 'Unknown'), line 55 of the tool
SourceOrUnknown(metadata) ==
    IF "source" \in DOMAIN metadata THEN metadata.source ELSE "Unknown"

EvidenceEntry_first(hits, i) ==
    [n |-> i, source |-> SourceOrUnknown(hits[1].metadata), text |-> hits[i].document]

\* line 56 of the tool: "[Source {i+1}: {source}]\n{doc}\n\n"
EvidenceEntry(hits, i) ==
    [n |-> i, source |-> SourceOrUnknown(hits[i].metadata), text |-> hits[i].document]

KnowledgeSearch_raising(r) ==
    IF ~r.ok THEN [raised |-> TRUE, kind |-> "error", entries |-> <<>>]
    ELSE IF r.hits = <<>> THEN [raised |-> TRUE, kind |-> "none", entries |-> <<>>]
    ELSE [raised |-> FALSE, kind |-> "evidence",
          entries |-> [i \in 1..Len(r.hits) |-> EvidenceEntry(r.hits, i)]]

\* lines 40-61 of the tool: the value returned for the outcome r of the
\* calls on the index
KnowledgeSearch(r) ==
    IF ~r.ok THEN [raised |-> FALSE, kind |-> "error", entries |-> <<>>]
    ELSE IF r.hits = <<>> THEN [raised |-> FALSE, kind |-> "none", entries |-> <<>>]
    ELSE [raised |-> FALSE, kind |-> "evidence",
          entries |-> [i \in 1..Len(r.hits) |-> EvidenceEntry(r.hits, i)]]

\* lines 494-496: "Result {i + 1} (from {metadata['source']}):" and the first
\* 300 characters of the document
PrintedEntry(hits, i) ==
    [n |-> i, source |-> hits[i].metadata.source,
     text |-> Slice(hits[i].document, 0, PreviewLen)]

\* lines 485-496: what test_query prints for the outcome r of the calls on
\* the index, and whether it raises
TestQueryOutput(r) ==
    IF ~r.ok THEN [raised |-> TRUE, kind |-> "error", entries |-> <<>>]
    ELSE LET bad  == {i \in 1..Len(r.hits) : "source" \notin DOMAIN r.hits[i].metadata}
             last == IF bad = {} THEN Len(r.hits)
                     ELSE (CHOOSE i \in bad : \A j \in bad : i <= j) - 1
         IN  [raised |-> bad # {}, kind |-> "printed",
              entries |-> [i \in 1..last |-> PrintedEntry(r.hits, i)]]

\* the stored collections of the model: none, an empty one, the ones a
\* rebuild and an article add leave behind, and one that also holds an entry
\* written without a source
AllLetters(n) == [len |-> n, dots |-> {}, sp |-> {}, nl |-> {}]

ForeignEntry == [id |-> "x_0", document |-> AllLetters(400), metadata |-> [page |-> 1]]

BooksItems == UNION {Range(BookEntries(BookChunks(p))) : p \in {2, 4}}

ArticleItems == Range(ArticleEntries(ArticleChunks(ExtractedArticle("u1", Web["u1"]))))

QueryCollections ==
    {NoCollection, EmptyCollection,
     [exists |-> TRUE, items |-> BooksItems],
     [exists |-> TRUE, items |-> BooksItems \cup ArticleItems \cup {ForeignEntry}],
     [exists |-> TRUE, items |-> Range(BookEntries(BookChunks(4))) \cup {ForeignEntry}]}

\* no run in progress, as in IngestIdle, over a stored collection
QueryInit ==
    /\ collection \in QueryCollections
    /\ q_start = collection
    /\ q_site = "none"
    /\ q_results = [ok |-> FALSE, hits |-> <<>>]
    /\ q_out = [raised |-> FALSE, kind |-> "none", entries |-> <<>>]
    /\ IngestRunIdle
    /\ ChunkIdle
    /\ SyncIdle
    /\ SafeIdle
    /\ ExtractIdle
    /\ PageIdle
    /\ BatchIdle
    /\ MailIdle

\* the calls on the index of one query: client, get_collection, query
IndexQuery(k) ==
    \E failure \in {"none", "client", "query"} :
        LET opened == get_collection(collection, failure # "client")
        IN  /\ collection' = opened.coll
            /\ IF opened.ok /\ failure = "none"
               THEN \E hits \in QueryResults(opened.coll, k) :
                        q_results' = [ok |-> TRUE, hits |-> hits]
               ELSE q_results' = [ok |-> FALSE, hits |-> <<>>]

\* KnowledgeSearchTool._run, lines 39-61 of topic_expert_agent.py
ToolRun ==
    /\ IndexQuery(ToolK)
    /\ q_site' = "tool"
    /\ q_out' = KnowledgeSearch(q_results')
    /\ UNCHANGED <<q_start, notQueryVars>>

\* test_query, lines 480-496
TestQuery ==
    /\ IndexQuery(TestK)
    /\ q_site' = "test"
    /\ q_out' = TestQueryOutput(q_results')
    /\ UNCHANGED <<q_start, notQueryVars>>

QueryNext == ToolRun \/ TestQuery

SpecQuery == QueryInit /\ [][QueryNext]_vars

(***************************************************************************)
(* extract_text_from_pdf, lines 166-188, followed by what ingest_books     *)
(* does with the text it returns, lines 448-455.  A PDF is what pymupdf    *)
(* meets in it: whether it opens, the text of each page, and the page, if  *)
(* any, on which get_text raises.                                          *)
(***************************************************************************)
\* the page texts of the model: no text, whitespace only, and a short
\* sentence followed by a newline
PageTexts ==
    {EmptyText,
     [len |-> 2, dots |-> {}, sp |-> {0, 1}, nl |-> {1}],
     [len |-> 5, dots |-> {3}, sp |-> {4}, nl |-> {4}]}

PageSeqs == UNION {[1..k -> PageTexts] : k \in 0..MaxPages}

Pdfs ==
    {[openable |-> FALSE, pages |-> <<>>, fails_at |-> 0]}
        \cup {[openable |-> TRUE, pages |-> ps, fails_at |-> k] :
                  ps \in PageSeqs, k \in 0..MaxPages}

ExtractInit ==
    /\ x_pdf \in {d \in Pdfs : d.fails_at <= Len(d.pages)}
    /\ x_pc = "call"
    /\ x_doc = "none"
    /\ x_text = EmptyText
    /\ x_page = 0
    /\ x_closes = 0
    /\ x_error = "none"
    /\ x_chunks = <<>>
    /\ IngestIdle
    /\ ChunkIdle
    /\ SyncIdle
    /\ SafeIdle
    /\ QueryIdle
    /\ PageIdle
    /\ BatchIdle
    /\ MailIdle

\* lines 170-174: doc = pymupdf.open(pdf_path); with doc still None the
\* finally clause does nothing and the error goes to the caller
ExtractOpen ==
    /\ x_pc = "call"
    /\ IF x_pdf.openable
       THEN /\ x_doc' = "open"
            /\ x_pc' = "pages"
            /\ UNCHANGED x_error
       ELSE /\ x_error' = "open"
            /\ x_pc' = "raised"
            /\ UNCHANGED x_doc
    /\ UNCHANGED <<x_pdf, x_text, x_page, x_closes, x_chunks, notExtractVars>>

\* lines 176-177: text += page.get_text(), or the exception it raises
ExtractPage ==
    /\ x_pc = "pages"
    /\ x_page < Len(x_pdf.pages)
    /\ IF x_pdf.fails_at = x_page + 1
       THEN /\ x_error' = "read"
            /\ x_pc' = "finally"
            /\ UNCHANGED <<x_text, x_page>>
       ELSE /\ x_text' = ConcatNl(x_text, 0, x_pdf.pages[x_page + 1])
            /\ x_page' = x_page + 1
            /\ UNCHANGED <<x_error, x_pc>>
    /\ UNCHANGED <<x_pdf, x_doc, x_closes, x_chunks, notExtractVars>>

\* lines 181-182: return text, which enters the finally clause
ExtractReturn ==
    /\ x_pc = "pages"
    /\ x_page = Len(x_pdf.pages)
    /\ x_pc' = "finally"
    /\ UNCHANGED <<x_pdf, x_doc, x_text, x_page, x_closes, x_error, x_chunks, notExtractVars>>

Propagated_close(error, close_ok) == IF close_ok THEN error ELSE "close"

\* lines 185-188: an exception of doc.close() is dropped; what leaves the
\* function is what entered the finally clause
Propagated(error, close_ok) == error

\* lines 183-188: the finally clause
ExtractFinally ==
    /\ x_pc = "finally"
    /\ \E close_ok \in BOOLEAN :
           /\ x_closes' = (IF x_doc # "none" THEN x_closes + 1 ELSE x_closes)
           /\ x_doc' = (IF close_ok THEN "closed" ELSE "close_failed")
           /\ x_error' = Propagated(x_error, close_ok)
           /\ x_pc' = (IF x_error' = "none" THEN "returned" ELSE "raised")
    /\ UNCHANGED <<x_pdf, x_text, x_page, x_chunks, notExtractVars>>

\* lines 448-455 of ingest_books: the returned text is normalised and handed
\* to chunk_text
ExtractCallerChunks ==
    /\ x_pc = "returned"
    /\ x_chunks' = chunk_text(NormalizeWhitespace(x_text), BookSourceName("a"), "book")
    /\ x_pc' = "chunked"
    /\ UNCHANGED <<x_pdf, x_doc, x_text, x_page, x_closes, x_error, notExtractVars>>

ExtractNext ==
    ExtractOpen \/ ExtractPage \/ ExtractReturn \/ ExtractFinally \/ ExtractCallerChunks

SpecExtract == ExtractInit /\ [][ExtractNext]_vars

(***************************************************************************)
(* extract_article_text on a document as the server sends it, lines        *)
(* 226-302.  The content of an element is the sequence of its parts, each  *)
(* the text of one child: tag "text" for running text, else the tag of the *)
(* child element holding it.                                               *)
(***************************************************************************)
\* lines 260-261: the elements removed before the content is looked for
UnwantedTags ==
    {"script", "style", "nav", "header", "footer", "aside", "form", "iframe", "noscript",
     "svg", "button"}

\* lines 260-262: tag.decompose() for every unwanted element
Decompose(parts) == SelectSeq(parts, LAMBDA p : p.tag \notin UnwantedTags)

RECURSIVE GetText(_)
\* get_text(separator='\n', strip=True), lines 270 and 276: the stripped
\* strings of the element, the empty ones left out, joined by a newline
GetText(parts) ==
    IF parts = <<>> THEN EmptyText
    ELSE LET t == Strip(parts[1].text)
             rest == GetText(Tail(parts))
         IN  IF t.len = 0 THEN rest
             ELSE IF rest.len = 0 THEN t
             ELSE ConcatNl(t, 1, rest)

\* soup.find(...) after the decompose loop, lines 268 and 274
FoundElement(e) ==
    IF e.present THEN Element(GetText(Decompose(e.parts))) ELSE NoElement

\* lines 243-283: what the parser finds in the document
Parsed(doc) ==
    [fetch_ok |-> doc.fetch_ok, netloc |-> doc.netloc,
     title_tag |-> doc.title_tag, og_title |-> doc.og_title, h1 |-> doc.h1,
     article |-> FoundElement(doc.article),
     main |-> FoundElement(doc.main),
     body |-> doc.body,
     paragraphs |-> [i \in 1..Len(Decompose(doc.paragraphs)) |->
                        Strip(Decompose(doc.paragraphs)[i].text)]]

Plain(n) == [len |-> n, dots |-> {n - 1}, sp |-> {}, nl |-> {}]

Part(tag, t) == [tag |-> tag, text |-> t]

NoParts == [present |-> FALSE, parts |-> <<>>]

Parts(ps) == [present |-> TRUE, parts |-> ps]

\* the title candidates of the documents
TitleTags == {<<>>, <<"t">>, <<" ", "t">>}

OgTitles == {<<>>, <<"o">>}

Headings == {<<>>, <<"h">>}

\* the <article> elements of the documents
Articles ==
    {NoParts,
     Parts(<<Part("text", Plain(499))>>),
     Parts(<<Part("text", Plain(500))>>),
     Parts(<<Part("nav", Plain(40)),
             Part("text", [len |-> 600, dots |-> {599}, sp |-> {0, 100, 101, 300, 301, 302},
                           nl |-> {300, 301, 302}])>>),
     Parts(<<Part("text", Plain(300)), Part("footer", Plain(250))>>)}

\* the main/content containers of the documents
Mains ==
    {NoParts,
     Parts(<<Part("text", Plain(120))>>),
     Parts(<<Part("header", Plain(30)), Part("text", Plain(520)), Part("form", Plain(20))>>)}

\* the <p> elements of the documents, each with the element it sits in
ParagraphLists ==
    {<<>>,
     <<Part("text", Plain(60)), Part("text", Plain(50)), Part("nav", Plain(70)),
       Part("text", Plain(51))>>}

Documents ==
    {[fetch_ok |-> FALSE]} \cup
    [fetch_ok : {TRUE}, netloc : {<<"w", "w", "w", ".", "d">>},
     title_tag : TitleTags, og_title : OgTitles, h1 : Headings,
     article : Articles, main : Mains, body : BOOLEAN, paragraphs : ParagraphLists]

PageInit ==
    /\ pg_doc \in Documents
    /\ pg_out = [title |-> <<>>]
    /\ pg_pc = "call"
    /\ IngestIdle
    /\ ChunkIdle
    /\ SyncIdle
    /\ SafeIdle
    /\ QueryIdle
    /\ ExtractIdle
    /\ BatchIdle
    /\ MailIdle

\* lines 233-302: the request raises, or the page is parsed and the dict returned
ExtractArticleText ==
    /\ pg_pc = "call"
    /\ IF pg_doc.fetch_ok
       THEN /\ pg_out' = ExtractedArticle("u1", Parsed(pg_doc))
            /\ pg_pc' = "returned"
       ELSE /\ pg_pc' = "raised"
            /\ UNCHANGED pg_out
    /\ UNCHANGED <<pg_doc, notPageVars>>

PageNext == ExtractArticleText

SpecPage == PageInit /\ [][PageNext]_vars

(***************************************************************************)
(* The batch loops of both ingestion modes, lines 444-469 and 354-366, on  *)
(* the chunks chunk_text has made of each document of the run, in a        *)
(* collection that starts empty                                            *)
(***************************************************************************)
\* the numbers of chunks of a document
BatchChunkCounts == {0, 1, 2, 99, 100, 101, 150, 200, 201, 300, 301}

\* a text of n windows without a sentence end in it
BatchText(n) ==
    [len |-> n * (CHUNK_SIZE - CHUNK_OVERLAP), dots |-> {}, sp |-> {}, nl |-> {}]

\* lines 197-219 on such a text: the window of chunk k starts at
\* (k - 1) * (CHUNK_SIZE - CHUNK_OVERLAP), as start = end - CHUNK_OVERLAP
\* with end = start + CHUNK_SIZE in every pass
PlainChunks(n, name, type) ==
    [k \in 1..n |->
        LET s == (k - 1) * (CHUNK_SIZE - CHUNK_OVERLAP)
        IN  ChunkRecord(BatchText(n), name, type, k - 1, s, WindowEnd(BatchText(n), s))]

\* lines 454-455: the chunks of the PDF with the given stem
BatchBookChunks(stem, n) == PlainChunks(n, BookSourceName(stem), "book")

\* lines 341-351: the chunks of an article, each with the url
BatchArticleChunks(n) ==
    LET cs == PlainChunks(n, "[Article] t (d)", "article")
    IN  [k \in DOMAIN cs |->
            [id |-> cs[k].id, text |-> cs[k].text, source |-> cs[k].source,
             source_type |-> cs[k].source_type, chunk_index |-> cs[k].chunk_index,
             url |-> "u1"]]

\* the documents of a run: one article, which has text and so at least one
\* chunk, or the PDFs of a rebuild
BatchRuns(mode) ==
    IF mode = "article"
    THEN {<<BatchArticleChunks(n)>> : n \in BatchChunkCounts \ {0}}
    ELSE {<<BatchBookChunks("a", n)>> : n \in BatchChunkCounts}
         \cup {<<BatchBookChunks("a", 101), BatchBookChunks("b", 1)>>,
               <<BatchBookChunks("a", 0), BatchBookChunks("b", 100)>>,
               <<BatchBookChunks("a", 1), BatchBookChunks("b", 201)>>}

\* lines 463-465 and 358-365: what a batch becomes in the add call
BatchEntries(mode, batch) ==
    IF mode = "book" THEN BookEntries(batch) ELSE ArticleEntries(batch)

BatchInit ==
    /\ bt_mode \in {"book", "article"}
    /\ bt_docs \in BatchRuns(bt_mode)
    /\ bt_d = 1
    /\ bt_i = 0
    /\ bt_items = {}
    /\ bt_calls = <<>>
    /\ bt_pc = "loop"
    /\ IngestIdle
    /\ ChunkIdle
    /\ SyncIdle
    /\ SafeIdle
    /\ QueryIdle
    /\ ExtractIdle
    /\ PageIdle
    /\ MailIdle

AddOutcome_caught(items, entries, add_ok) ==
    [items |-> IF add_ok THEN CollectionAdd(items, entries) ELSE items, raised |-> FALSE]

\* lines 462-466 and 357-366: collection.add(...) outside any try: its
\* exception leaves the loop and the function
AddOutcome(items, entries, add_ok) ==
    IF add_ok
    THEN [items |-> CollectionAdd(items, entries), raised |-> FALSE]
    ELSE [items |-> items, raised |-> TRUE]

\* lines 460-467 and 355-366: one pass of the batch loop
BatchAdd ==
    /\ bt_pc = "loop"
    /\ bt_i < Len(bt_docs[bt_d])
    /\ \E add_ok \in BOOLEAN :
          LET entries == BatchEntries(bt_mode, Batch(bt_docs[bt_d], bt_i))
              r == AddOutcome(bt_items, entries, add_ok)
          IN  /\ bt_calls' = Append(bt_calls, [doc |-> bt_d, entries |-> entries,
                                               ok |-> add_ok])
              /\ bt_items' = r.items
              /\ IF r.raised
                 THEN /\ bt_pc' = "raised"
                      /\ UNCHANGED bt_i
                 ELSE /\ bt_i' = bt_i + batch_size
                      /\ UNCHANGED bt_pc
    /\ UNCHANGED <<bt_mode, bt_docs, bt_d, notBatchVars>>

\* lines 460, 469 and 444: the batch loop is exhausted, on to the next PDF
BatchNextDocument ==
    /\ bt_pc = "loop"
    /\ ~(bt_i < Len(bt_docs[bt_d]))
    /\ bt_d < Len(bt_docs)
    /\ bt_d' = bt_d + 1
    /\ bt_i' = 0
    /\ UNCHANGED <<bt_mode, bt_docs, bt_items, bt_calls, bt_pc, notBatchVars>>

\* lines 471 and 368: the batch loop of the last document is exhausted
BatchDone ==
    /\ bt_pc = "loop"
    /\ ~(bt_i < Len(bt_docs[bt_d]))
    /\ bt_d = Len(bt_docs)
    /\ bt_pc' = "done"
    /\ UNCHANGED <<bt_mode, bt_docs, bt_d, bt_i, bt_items, bt_calls, notBatchVars>>

BatchNext == BatchAdd \/ BatchNextDocument \/ BatchDone

SpecBatch == BatchInit /\ [][BatchNext]_vars

(***************************************************************************)
(* email_reply_agent.py: is_safe_to_reply, lines 95-115, and               *)
(* GmailDraftTool._run, lines 211-253                                      *)
(***************************************************************************)
\* lines 27-44
BLOCKED_DOMAINS ==
    <<<<"n", "o", "r", "e", "p", "l", "y", "@">>,
      <<"n", "o", "-", "r", "e", "p", "l", "y", "@">>,
      <<"d", "o", "n", "o", "t", "r", "e", "p", "l", "y", "@">>,
      <<"m", "a", "i", "l", "e", "r", "-", "d", "a", "e", "m", "o", "n", "@">>,
      <<"p", "o", "s", "t", "m", "a", "s", "t", "e", "r", "@">>,
      <<"n", "o", "t", "i", "f", "i", "c", "a", "t", "i", "o", "n", "s", "@">>,
      <<"a", "l", "e", "r", "t", "@">>,
      <<"a", "l", "e", "r", "t", "s", "@">>,
      <<"n", "e", "w", "s", "l", "e", "t", "t", "e", "r", "@">>,
      <<"n", "e", "w", "s", "@">>,
      <<"m", "a", "r", "k", "e", "t", "i", "n", "g", "@">>,
      <<"p", "r", "o", "m", "o", "@">>,
      <<"p", "r", "o", "m", "o", "t", "i", "o", "n", "s", "@">>,
      <<"o", "f", "f", "e", "r", "s", "@">>,
      <<"d", "e", "a", "l", "s", "@">>,
      <<"u", "n", "s", "u", "b", "s", "c", "r", "i", "b", "e", "@">>>>

\* lines 47-67
BLOCKED_SUBJECTS ==
    <<<<"u", "n", "s", "u", "b", "s", "c", "r", "i", "b", "e">>,
      <<"v", "e", "r", "i", "f", "y", " ", "y", "o", "u", "r", " ", "a", "c", "c", "o", "u", "n", "t">>,
      <<"c", "o", "n", "f", "i", "r", "m", " ", "y", "o", "u", "r", " ", "e", "m", "a", "i", "l">>,
      <<"p", "a", "s", "s", "w", "o", "r", "d", " ", "r", "e", "s", "e", "t">>,
      <<"s", "e", "c", "u", "r", "i", "t", "y", " ", "a", "l", "e", "r", "t">>,
      <<"u", "n", "u", "s", "u", "a", "l", " ", "a", "c", "t", "i", "v", "i", "t", "y">>,
      <<"a", "c", "t", " ", "n", "o", "w">>,
      <<"l", "i", "m", "i", "t", "e", "d", " ", "t", "i", "m", "e">>,
      <<"y", "o", "u", "'", "v", "e", " ", "w", "o", "n">>,
      <<"c", "o", "n", "g", "r", "a", "t", "u", "l", "a", "t", "i", "o", "n", "s">>,
      <<"c", "l", "a", "i", "m", " ", "y", "o", "u", "r">>,
      <<"u", "r", "g", "e", "n", "t", " ", "a", "c", "t", "i", "o", "n", " ", "r", "e", "q", "u", "i", "r", "e", "d">>,
      <<"a", "c", "c", "o", "u", "n", "t", " ", "s", "u", "s", "p", "e", "n", "d", "e", "d">>,
      <<"v", "e", "r", "i", "f", "y", " ", "i", "m", "m", "e", "d", "i", "a", "t", "e", "l", "y">>,
      <<"n", "i", "g", "e", "r", "i", "a", "n">>,
      <<"i", "n", "h", "e", "r", "i", "t", "a", "n", "c", "e">>,
      <<"l", "o", "t", "t", "e", "r", "y">>,
      <<"m", "i", "l", "l", "i", "o", "n", " ", "d", "o", "l", "l", "a", "r", "s">>,
      <<"w", "i", "r", "e", " ", "t", "r", "a", "n", "s", "f", "e", "r">>>>

\* lines 70-92
BLOCKED_SENDER_DOMAINS ==
    <<<<"g", "i", "t", "h", "u", "b", ".", "c", "o", "m">>,
      <<"g", "o", "o", "g", "l", "e", ".", "c", "o", "m">>,
      <<"g", "o", "o", "g", "l", "e", "a", "p", "i", "s", ".", "c", "o", "m">>,
      <<"a", "m", "a", "z", "o", "n", "s", "e", "s", ".", "c", "o", "m">>,
      <<"s", "e", "n", "d", "g", "r", "i", "d", ".", "n", "e", "t">>,
      <<"m", "a", "i", "l", "c", "h", "i", "m", "p", ".", "c", "o", "m">>,
      <<"c", "o", "n", "s", "t", "a", "n", "t", "c", "o", "n", "t", "a", "c", "t", ".", "c", "o", "m">>,
      <<"l", "i", "n", "k", "e", "d", "i", "n", ".", "c", "o", "m">>,
      <<"f", "a", "c", "e", "b", "o", "o", "k", ".", "c", "o", "m">>,
      <<"t", "w", "i", "t", "t", "e", "r", ".", "c", "o", "m">>,
      <<"x", ".", "c", "o", "m">>,
      <<"i", "n", "s", "t", "a", "g", "r", "a", "m", ".", "c", "o", "m">>,
      <<"t", "i", "k", "t", "o", "k", ".", "c", "o", "m">>,
      <<"s", "p", "o", "t", "i", "f", "y", ".", "c", "o", "m">>,
      <<"n", "e", "t", "f", "l", "i", "x", ".", "c", "o", "m">>,
      <<"a", "p", "p", "l", "e", ".", "c", "o", "m">>,
      <<"m", "i", "c", "r", "o", "s", "o", "f", "t", ".", "c", "o", "m">>,
      <<"p", "a", "y", "p", "a", "l", ".", "c", "o", "m">>,
      <<"s", "q", "u", "a", "r", "e", "s", "p", "a", "c", "e", ".", "c", "o", "m">>,
      <<"w", "i", "x", ".", "c", "o", "m">>,
      <<"s", "h", "o", "p", "i", "f", "y", ".", "c", "o", "m">>>>

\* pat in cs
Contains(cs, pat) ==
    \E i \in 1..(Len(cs) - Len(pat) + 1) : SubSeq(cs, i, i + Len(pat) - 1) = pat

\* the first element of the list pats found in cs, as the for loops of lines
\* 101-113 find it; 0 when there is none
FirstMatch(pats, cs) ==
    IF \E k \in DOMAIN pats : Contains(cs, pats[k])
    THEN CHOOSE k \in DOMAIN pats :
             /\ Contains(cs, pats[k])
             /\ \A j \in 1..(k - 1) : ~Contains(cs, pats[j])
    ELSE 0

is_safe_to_reply_cased(sender, subject) ==
    IF FirstMatch(BLOCKED_DOMAINS, sender) # 0
    THEN [is_safe |-> FALSE, reason |-> "pattern"]
    ELSE IF FirstMatch(BLOCKED_SENDER_DOMAINS, sender) # 0
    THEN [is_safe |-> FALSE, reason |-> "domain"]
    ELSE IF FirstMatch(BLOCKED_SUBJECTS, subject) # 0
    THEN [is_safe |-> FALSE, reason |-> "keyword"]
    ELSE [is_safe |-> TRUE, reason |-> "safe"]

\* lines 95-115: the verdict and which of the three lists gave the reason
is_safe_to_reply(sender, subject) ==
    LET sender_lower == Lower(sender)
        subject_lower == Lower(subject)
    IN  IF FirstMatch(BLOCKED_DOMAINS, sender_lower) # 0
        THEN [is_safe |-> FALSE, reason |-> "pattern"]
        ELSE IF FirstMatch(BLOCKED_SENDER_DOMAINS, sender_lower) # 0
        THEN [is_safe |-> FALSE, reason |-> "domain"]
        ELSE IF FirstMatch(BLOCKED_SUBJECTS, subject_lower) # 0
        THEN [is_safe |-> FALSE, reason |-> "keyword"]
        ELSE [is_safe |-> TRUE, reason |-> "safe"]

RECURSIVE Split(_, _)
\* cs.split(sep), line 217
Split(cs, sep) ==
    IF \E i \in 1..Len(cs) : cs[i] = sep
    THEN LET i == CHOOSE k \in 1..Len(cs) :
                      cs[k] = sep /\ \A j \in 1..(k - 1) : cs[j] # sep
         IN  <<SubSeq(cs, 1, i - 1)>> \o Split(SubSeq(cs, i + 1, Len(cs)), sep)
    ELSE <<cs>>

\* line 234: the subject of the reply
ReplySubject(subject) ==
    IF Len(subject) >= 3 /\ SubSeq(subject, 1, 3) = <<"R", "e", ":">>
    THEN subject
    ELSE <<"R", "e", ":", " ">> \o subject

\* lines 232-247: the message of the draft
DraftMessage(to_email, subject, body, original_id) ==
    [present |-> TRUE, to |-> to_email, subject |-> ReplySubject(subject), body |-> body,
     threadId |-> original_id]

\* the inputs the agent hands to the tool: four fields, fewer, or more
MailInputs ==
    {<<"a", "@", "b", ".", "i", "o", "|", "H", "i", "|", "b", "|", "t", "1">>,
     <<"a", "@", "b", ".", "i", "o", "|", "H", "i", "|", "b", "|">>,
     <<"a", "@", "b", ".", "i", "o", "|", "H", "i", "|", "|", "t", "1">>,
     <<"a", "@", "b", ".", "i", "o", "|", "H", "i", "|", "|">>,
     <<"a", "@", "b", ".", "i", "o", "|", "R", "e", ":", " ", "H", "i", "|", "b", "|", "t", "1">>,
     <<"a", "@", "b", ".", "i", "o", "|", "R", "e", ":", " ", "H", "i", "|", "b", "|">>,
     <<"a", "@", "b", ".", "i", "o", "|", "R", "e", ":", " ", "H", "i", "|", "|", "t", "1">>,
     <<"a", "@", "b", ".", "i", "o", "|", "R", "e", ":", " ", "H", "i", "|", "|">>,
     <<"a", "@", "b", ".", "i", "o", "|", "A", "c", "t", " ", "N", "O", "W", "|", "b", "|", "t", "1">>,
     <<"a", "@", "b", ".", "i", "o", "|", "A", "c", "t", " ", "N", "O", "W", "|", "b", "|">>,
     <<"a", "@", "b", ".", "i", "o", "|", "A", "c", "t", " ", "N", "O", "W", "|", "|", "t", "1">>,
     <<"a", "@", "b", ".", "i", "o", "|", "A", "c", "t", " ", "N", "O", "W", "|", "|">>,
     <<"a", "@", "b", ".", "i", "o", "|", "L", "o", "t", "t", "e", "r", "y", "|", "b", "|", "t", "1">>,
     <<"a", "@", "b", ".", "i", "o", "|", "L", "o", "t", "t", "e", "r", "y", "|", "b", "|">>,
     <<"a", "@", "b", ".", "i", "o", "|", "L", "o", "t", "t", "e", "r", "y", "|", "|", "t", "1">>,
     <<"a", "@", "b", ".", "i", "o", "|", "L", "o", "t", "t", "e", "r", "y", "|", "|">>,
     <<"N", "o", "R", "e", "p", "l", "y", "@", "b", ".", "i", "o", "|", "H", "i", "|", "b", "|", "t", "1">>,
     <<"N", "o", "R", "e", "p", "l", "y", "@", "b", ".", "i", "o", "|", "H", "i", "|", "b", "|">>,
     <<"N", "o", "R", "e", "p", "l", "y", "@", "b", ".", "i", "o", "|", "H", "i", "|", "|", "t", "1">>,
     <<"N", "o", "R", "e", "p", "l", "y", "@", "b", ".", "i", "o", "|", "H", "i", "|", "|">>,
     <<"N", "o", "R", "e", "p", "l", "y", "@", "b", ".", "i", "o", "|", "R", "e", ":", " ", "H", "i", "|", "b", "|", "t", "1">>,
     <<"N", "o", "R", "e", "p", "l", "y", "@", "b", ".", "i", "o", "|", "R", "e", ":", " ", "H", "i", "|", "b", "|">>,
     <<"N", "o", "R", "e", "p", "l", "y", "@", "b", ".", "i", "o", "|", "R", "e", ":", " ", "H", "i", "|", "|", "t", "1">>,
     <<"N", "o", "R", "e", "p", "l", "y", "@", "b", ".", "i", "o", "|", "R", "e", ":", " ", "H", "i", "|", "|">>,
     <<"N", "o", "R", "e", "p", "l", "y", "@", "b", ".", "i", "o", "|", "A", "c", "t", " ", "N", "O", "W", "|", "b", "|", "t", "1">>,
     <<"N", "o", "R", "e", "p", "l", "y", "@", "b", ".", "i", "o", "|", "A", "c", "t", " ", "N", "O", "W", "|", "b", "|">>,
     <<"N", "o", "R", "e", "p", "l", "y", "@", "b", ".", "i", "o", "|", "A", "c", "t", " ", "N", "O", "W", "|", "|", "t", "1">>,
     <<"N", "o", "R", "e", "p", "l", "y", "@", "b", ".", "i", "o", "|", "A", "c", "t", " ", "N", "O", "W", "|", "|">>,
     <<"N", "o", "R", "e", "p", "l", "y", "@", "b", ".", "i", "o", "|", "L", "o", "t", "t", "e", "r", "y", "|", "b", "|", "t", "1">>,
     <<"N", "o", "R", "e", "p", "l", "y", "@", "b", ".", "i", "o", "|", "L", "o", "t", "t", "e", "r", "y", "|", "b", "|">>,
     <<"N", "o", "R", "e", "p", "l", "y", "@", "b", ".", "i", "o", "|", "L", "o", "t", "t", "e", "r", "y", "|", "|", "t", "1">>,
     <<"N", "o", "R", "e", "p", "l", "y", "@", "b", ".", "i", "o", "|", "L", "o", "t", "t", "e", "r", "y", "|", "|">>,
     <<"a", "@", "X", ".", "c", "o", "m", "|", "H", "i", "|", "b", "|", "t", "1">>,
     <<"a", "@", "X", ".", "c", "o", "m", "|", "H", "i", "|", "b", "|">>,
     <<"a", "@", "X", ".", "c", "o", "m", "|", "H", "i", "|", "|", "t", "1">>,
     <<"a", "@", "X", ".", "c", "o", "m", "|", "H", "i", "|", "|">>,
     <<"a", "@", "X", ".", "c", "o", "m", "|", "R", "e", ":", " ", "H", "i", "|", "b", "|", "t", "1">>,
     <<"a", "@", "X", ".", "c", "o", "m", "|", "R", "e", ":", " ", "H", "i", "|", "b", "|">>,
     <<"a", "@", "X", ".", "c", "o", "m", "|", "R", "e", ":", " ", "H", "i", "|", "|", "t", "1">>,
     <<"a", "@", "X", ".", "c", "o", "m", "|", "R", "e", ":", " ", "H", "i", "|", "|">>,
     <<"a", "@", "X", ".", "c", "o", "m", "|", "A", "c", "t", " ", "N", "O", "W", "|", "b", "|", "t", "1">>,
     <<"a", "@", "X", ".", "c", "o", "m", "|", "A", "c", "t", " ", "N", "O", "W", "|", "b", "|">>,
     <<"a", "@", "X", ".", "c", "o", "m", "|", "A", "c", "t", " ", "N", "O", "W", "|", "|", "t", "1">>,
     <<"a", "@", "X", ".", "c", "o", "m", "|", "A", "c", "t", " ", "N", "O", "W", "|", "|">>,
     <<"a", "@", "X", ".", "c", "o", "m", "|", "L", "o", "t", "t", "e", "r", "y", "|", "b", "|", "t", "1">>,
     <<"a", "@", "X", ".", "c", "o", "m", "|", "L", "o", "t", "t", "e", "r", "y", "|", "b", "|">>,
     <<"a", "@", "X", ".", "c", "o", "m", "|", "L", "o", "t", "t", "e", "r", "y", "|", "|", "t", "1">>,
     <<"a", "@", "X", ".", "c", "o", "m", "|", "L", "o", "t", "t", "e", "r", "y", "|", "|">>,
     <<" ", "a", "@", "b", ".", "i", "o", " ", "|", "H", "i", "|", "b", "|", "t", "1">>,
     <<" ", "a", "@", "b", ".", "i", "o", " ", "|", "H", "i", "|", "b", "|">>,
     <<" ", "a", "@", "b", ".", "i", "o", " ", "|", "H", "i", "|", "|", "t", "1">>,
     <<" ", "a", "@", "b", ".", "i", "o", " ", "|", "H", "i", "|", "|">>,
     <<" ", "a", "@", "b", ".", "i", "o", " ", "|", "R", "e", ":", " ", "H", "i", "|", "b", "|", "t", "1">>,
     <<" ", "a", "@", "b", ".", "i", "o", " ", "|", "R", "e", ":", " ", "H", "i", "|", "b", "|">>,
     <<" ", "a", "@", "b", ".", "i", "o", " ", "|", "R", "e", ":", " ", "H", "i", "|", "|", "t", "1">>,
     <<" ", "a", "@", "b", ".", "i", "o", " ", "|", "R", "e", ":", " ", "H", "i", "|", "|">>,
     <<" ", "a", "@", "b", ".", "i", "o", " ", "|", "A", "c", "t", " ", "N", "O", "W", "|", "b", "|", "t", "1">>,
     <<" ", "a", "@", "b", ".", "i", "o", " ", "|", "A", "c", "t", " ", "N", "O", "W", "|", "b", "|">>,
     <<" ", "a", "@", "b", ".", "i", "o", " ", "|", "A", "c", "t", " ", "N", "O", "W", "|", "|", "t", "1">>,
     <<" ", "a", "@", "b", ".", "i", "o", " ", "|", "A", "c", "t", " ", "N", "O", "W", "|", "|">>,
     <<" ", "a", "@", "b", ".", "i", "o", " ", "|", "L", "o", "t", "t", "e", "r", "y", "|", "b", "|", "t", "1">>,
     <<" ", "a", "@", "b", ".", "i", "o", " ", "|", "L", "o", "t", "t", "e", "r", "y", "|", "b", "|">>,
     <<" ", "a", "@", "b", ".", "i", "o", " ", "|", "L", "o", "t", "t", "e", "r", "y", "|", "|", "t", "1">>,
     <<" ", "a", "@", "b", ".", "i", "o", " ", "|", "L", "o", "t", "t", "e", "r", "y", "|", "|">>,
     <<>>,
     <<"a", "@", "b", ".", "i", "o">>,
     <<"N", "o", "R", "e", "p", "l", "y", "@", "b", ".", "i", "o", "|", "H", "i", "|", "b">>,
     <<"a", "@", "b", ".", "i", "o", "|", "H", "i", "|", "b">>,
     <<"a", "@", "b", ".", "i", "o", "|", "H", "i", "|", "b", "|", "c", "|", "t", "1">>,
     <<"a", "@", "b", ".", "i", "o", "|", "L", "o", "t", "t", "e", "r", "y", "|", "b", "|", "c", "|", "t", "1">>}

MailInit ==
    /\ gm_input \in MailInputs
    /\ gm_service \in {"ok", "none", "raises"}
    /\ gm_pc = "call"
    /\ gm_calls = <<>>
    /\ gm_draft = [present |-> FALSE]
    /\ gm_out = [kind |-> "none", reason |-> "none"]
    /\ IngestIdle
    /\ ChunkIdle
    /\ SyncIdle
    /\ SafeIdle
    /\ QueryIdle
    /\ ExtractIdle
    /\ PageIdle
    /\ BatchIdle

\* the function returns a result of kind k
MailReturn(k, reason) ==
    /\ gm_out' = [kind |-> k, reason |-> reason]
    /\ gm_pc' = "returned"

\* lines 212-229: the service, the split, the field count and the security
\* check; get_gmail_service is called outside the try block
GmailDraftCheck ==
    /\ gm_pc = "call"
    /\ LET parts == Split(gm_input, "|")
       IN  IF gm_service = "raises"
           THEN /\ MailReturn("raised", "none")
                /\ UNCHANGED <<gm_calls, gm_draft>>
           ELSE IF gm_service = "none"
           THEN /\ MailReturn("error_auth", "none")
                /\ UNCHANGED <<gm_calls, gm_draft>>
           ELSE IF Len(parts) < 4
           THEN /\ MailReturn("error_input", "none")
                /\ UNCHANGED <<gm_calls, gm_draft>>
           ELSE LET to_email    == StripChars(parts[1])
                    subject     == StripChars(parts[2])
                    body        == StripChars(parts[3])
                    original_id == StripChars(parts[4])
                    verdict     == is_safe_to_reply(to_email, subject)
                IN  /\ gm_calls' = Append(gm_calls, "is_safe_to_reply")
                    /\ IF ~verdict.is_safe
                       THEN /\ MailReturn("blocked", verdict.reason)
                            /\ UNCHANGED gm_draft
                       ELSE /\ gm_draft' = DraftMessage(to_email, subject, body, original_id)
                            /\ gm_pc' = "create"
                            /\ UNCHANGED gm_out
    /\ UNCHANGED <<gm_input, gm_service, notMailVars>>

\* lines 240-253: drafts().create(...).execute(), whose exception becomes an
\* error result
GmailDraftCreate ==
    /\ gm_pc = "create"
    /\ gm_calls' = Append(gm_calls, "drafts.create")
    /\ \E create_ok \in BOOLEAN :
          IF create_ok THEN MailReturn("success", "none")
          ELSE MailReturn("error_create", "none")
    /\ UNCHANGED <<gm_input, gm_service, gm_draft, notMailVars>>

MailNext == GmailDraftCheck \/ GmailDraftCreate

SpecMail == MailInit /\ [][MailNext]_vars

IngestInit ==
    /\ IngestIdle
    /\ ChunkIdle
    /\ SyncIdle
    /\ SafeIdle
    /\ QueryIdle
    /\ ExtractIdle
    /\ PageIdle
    /\ BatchIdle
    /\ MailIdle

IngestNext ==
    \/ RebuildStart
    \/ RebuildOpen
    \/ RebuildExtract
    \/ RebuildAddBatch
    \/ RebuildDocDone
    \/ ArticleStart
    \/ ArticleOpen
    \/ ArticleAddBatch
    \/ ArticleDone

SpecIngest == IngestInit /\ [][IngestNext]_vars

(***************************************************************************)
(* The chunker specification: one call of chunk_text, one loop iteration   *)
(* per step.  Both callers hand chunk_text a text without leading or       *)
(* trailing whitespace (line 451: ' '.join(text.split()); line 299:        *)
(* article_text.strip()).                                                  *)
(***************************************************************************)
TextLens == {l \in {0, 1, 501, 502, 800, 801, 999, 1000, 1001, 1500, 1800, 1802} : l <= MaxTextLen}
                \cup {MaxTextLen}

DotPositions == {500, 501, 900, 999, 1201, 1300, 1700}

SpacePositions == {502, 700, 701, 901}

ChunkInputs ==
    {[len |-> l, dots |-> d, sp |-> s, nl |-> {}] :
        l \in TextLens,
        d \in SUBSET DotPositions,
        s \in SUBSET SpacePositions}

IsChunkInput(t) ==
    /\ \A p \in t.dots \cup t.sp : p < t.len
    /\ t.dots \cap t.sp = {}
    /\ 0 \notin t.sp
    /\ (t.len - 1) \notin t.sp

SourceNames == {"[Book] a", "[Article] t (d)"}

ChunkInit ==
    /\ text \in {t \in ChunkInputs : IsChunkInput(t)}
    /\ source_name \in SourceNames
    /\ source_type = (IF source_name = "[Book] a" THEN "book" ELSE "article")
    /\ start = 0
    /\ chunk_id = 0
    /\ chunks = <<>>
    /\ windows = <<>>
    /\ cpc = "loop"
    /\ IngestIdle
    /\ SyncIdle
    /\ SafeIdle
    /\ QueryIdle
    /\ ExtractIdle
    /\ PageIdle
    /\ BatchIdle
    /\ MailIdle

\* one pass through the loop body, lines 197-217
ChunkLoop ==
    /\ cpc = "loop"
    /\ start < text.len
    /\ LET st == ChunkBody(text, source_name, source_type,
                           [start |-> start, chunk_id |-> chunk_id,
                            chunks |-> chunks, windows |-> windows])
       IN  /\ start' = st.start
           /\ chunk_id' = st.chunk_id
           /\ chunks' = st.chunks
           /\ windows' = st.windows
    /\ UNCHANGED <<text, source_name, source_type, cpc, notChunkVars>>

\* the loop condition fails, line 219
ChunkReturn ==
    /\ cpc = "loop"
    /\ ~(start < text.len)
    /\ cpc' = "returned"
    /\ UNCHANGED <<text, source_name, source_type, start, chunk_id, chunks, windows,
                   notChunkVars>>

ChunkNext == ChunkLoop \/ ChunkReturn

SpecChunk == ChunkInit /\ [][ChunkNext]_vars

(***************************************************************************)
(* Claims about the ingestion runs, checked under SpecIngest               *)
(***************************************************************************)
\* the entries a full rebuild hands to the index for the PDFs of ps
ExpectedItems(ps) ==
    UNION {Range(BookEntries(BookChunks(p))) : p \in Range(ps)}

\* the run under way, or the last run, is an incremental article add
InArticleRun ==
    \/ ipc \in {"art_open", "art_add"}
    \/ ipc = "idle" /\ outcome \in {"art_added", "art_aborted", "art_short", "art_fetch_failed"}

\* C1: after a full rebuild that runs to completion the collection contains
\* exactly the chunks produced from the PDFs found locally; no chunk that
\* was in the collection before the rebuild survives, whether or not a
\* collection existed before.
C1_RebuildHoldsExactlyTheChunksOfThePdfs ==
    outcome = "rb_complete"
        => /\ collection.exists
           /\ collection.items = ExpectedItems(pdf_files)

\* C7: chunk ids are unique within the collection after any sequence of
\* full rebuilds and article adds: two different documents never produce
\* the same id.
C7_IdsUniqueAcrossDocuments ==
    /\ \A e1, e2 \in collection.items : e1.id = e2.id => e1 = e2
    /\ \A x, y \in handed : x.id = y.id => x.doc = y.doc

\* C8: an incremental add never deletes or alters existing data: every
\* entry that was in the collection before the call is still there, with
\* the same text and metadata; the existing collection is used when
\* present and a new one is created only when none exists.
C8_ArticleAddKeepsExistingEntries ==
    InArticleRun
        => /\ before.exists => (collection.exists /\ before.items \subseteq collection.items)
           /\ created => ~before.exists
           /\ "delete_collection" \notin Range(index_calls)

C8_Witness ==
    /\ outcome = "art_added"
    /\ before.exists
    /\ before.items # {}
    /\ collection.items # before.items

\* C9: add_article_to_knowledge_base makes no call on the vector index when
\* the fetch fails or when the extracted text has fewer than 100
\* characters; in the short-text case it returns 0 and the collection is
\* unchanged (and not created).
C9_NoIndexCallWithoutContent ==
    InArticleRun
        => LET page == Web[run_url]
           IN  /\ ~page.fetch_ok
                     => (outcome = "art_fetch_failed" /\ index_calls = <<>>
                         /\ collection = before)
               /\ (page.fetch_ok /\ ExtractedArticle(run_url, page).text.len < 100)
                     => (outcome = "art_short" /\ ret = 0 /\ index_calls = <<>>
                         /\ collection = before)

C9_Witness ==
    /\ outcome = "art_short"
    /\ ret = 0
    /\ before.exists
    /\ before.items # {}

(***************************************************************************)
(* Claims about chunk_text, checked under SpecChunk                        *)
(***************************************************************************)
\* the cursor after the window windows[i]: the next window's start, or the
\* variable start after the last window emitted so far
StartAfter(i) == IF i < Len(windows) THEN windows[i + 1][1] ELSE start

\* the '.' positions of the text inside the tentative window that starts at s
DotsInWindow(s) == {q \in text.dots : s <= q /\ q < s + CHUNK_SIZE}

\* C2: once a chunk is emitted whose window reaches the end of the text
\* (end >= len(text)) the loop stops and that chunk is the last one; a text
\* of exactly 1000 characters with no '.' in its back half yields exactly
\* one chunk, of length 1000.
C2_LoopStopsAtTextEnd ==
    /\ \A i \in 1..Len(windows) :
          windows[i][2] >= text.len => (i = Len(windows) /\ ~(start < text.len))
    /\ (cpc = "returned" /\ text.len = 1000 /\ \A q \in text.dots : q <= CHUNK_SIZE \div 2)
          => (Len(chunks) = 1 /\ chunks[1].text.len = 1000)

\* C3: a text of length L < CHUNK_SIZE yields exactly one chunk when L > 0
\* and zero chunks when L = 0.
C3_ShortTextOneChunk ==
    (cpc = "returned" /\ text.len < CHUNK_SIZE)
        => Len(chunks) = (IF text.len > 0 THEN 1 ELSE 0)

\* C4: for a non-empty text the windows cover every character position: the
\* first window starts at 0, each next window starts CHUNK_OVERLAP before
\* the previous window's end (no gap), and the last window reaches len(T).
C4_WindowsCoverText ==
    /\ windows # <<>> => windows[1][1] = 0
    /\ \A i \in 1..Len(windows) :
          /\ 0 <= windows[i][1]
          /\ windows[i][1] < windows[i][2]
          /\ StartAfter(i) = windows[i][2] - CHUNK_OVERLAP
          /\ StartAfter(i) <= windows[i][2]
    /\ (cpc = "returned" /\ text.len > 0)
          => /\ windows # <<>>
             /\ windows[Len(windows)][2] >= text.len
             /\ \A p \in 0..(text.len - 1) :
                   \E i \in 1..Len(windows) : windows[i][1] <= p /\ p < windows[i][2]

C4_Witness ==
    /\ cpc = "returned"
    /\ Len(windows) >= 3
    /\ \E i \in 1..Len(windows) : windows[i][2] - windows[i][1] < CHUNK_SIZE

\* C5: the chunks carry chunk_index 0, 1, ..., n-1 in emission order, each
\* chunk's id is "<source_name>_<chunk_index>", and the ids of one source
\* are pairwise distinct.
C5_IndexContiguousIdsDistinct ==
    /\ Len(chunks) = chunk_id
    /\ \A i \in 1..Len(chunks) :
          /\ chunks[i].chunk_index = i - 1
          /\ chunks[i].id = source_name \o "_" \o ToString(i - 1)
    /\ \A i, j \in 1..Len(chunks) : i # j => chunks[i].id # chunks[j].id

C5_Witness == cpc = "returned" /\ Len(chunks) >= 3

\* C6: a non-final window (start + CHUNK_SIZE < len(text)) whose last '.'
\* lies at window offset p > CHUNK_SIZE/2 ends right after that period
\* (length p+1) and the next window starts at start + p + 1 - CHUNK_OVERLAP;
\* otherwise the window keeps its full extent.  A 1500-character text whose
\* period is at position 900 yields a first chunk of length 901 and a
\* second window starting at 701.
C6_SentenceBoundaryCut ==
    /\ \A i \in 1..Len(windows) :
          LET s == windows[i][1]
              D == DotsInWindow(s)
              p == IF D = {} THEN -1 ELSE MaxOf(D) - s
          IN  IF s + CHUNK_SIZE < text.len /\ 2 * p > CHUNK_SIZE
              THEN /\ windows[i][2] - s = p + 1
                   /\ StartAfter(i) = s + p + 1 - CHUNK_OVERLAP
              ELSE windows[i][2] - s = CHUNK_SIZE
    /\ (text.len = 1500 /\ windows # <<>> /\ DotsInWindow(0) # {} /\ MaxOf(DotsInWindow(0)) = 900)
          => /\ windows[1] = <<0, 901>>
             /\ chunks[1].text.len = 901
             /\ StartAfter(1) = 701

C6_Witness ==
    /\ text.len = 1500
    /\ Len(windows) >= 2
    /\ windows[1] = <<0, 901>>
    /\ windows[2][1] = 701
    /\ chunks[1].text.len = 901

(***************************************************************************)
(* Properties of the synchronizer (SpecSync)                               *)
(***************************************************************************)
\* the remote modified time of a decision is present, parseable and strictly
\* newer than the modification time of the local copy
RemoteNewer(d) ==
    /\ d.f.modifiedTime.kind \notin {"missing", "garbled"}
    /\ d.f.modifiedTime.wall - d.f.modifiedTime.off > d.local.mtime

\* C10: a file of a sync run is downloaded if and only if force is true, or
\* no local copy exists, or the local copy's size differs from the remote
\* size, or the remote modified time is present, parseable and strictly newer
\* than the local copy's modification time; otherwise it is skipped.  Read in
\* the code's favour: a remote size that is missing differs from no local
\* size, and only the files whose local copy can be read are judged.
C10_DownloadIffPolicy ==
    \A i \in 1..Len(decisions) :
        LET d == decisions[i]
        IN  d.stat_ok =>
                /\ d.should_download <=>
                       \/ force
                       \/ ~d.local.exists
                       \/ (d.f.size # NoSize /\ d.local.size # d.f.size)
                       \/ RemoteNewer(d)
                /\ d.should_download <=> d.download # "none"

\* the file of decision d was handed on: the loop body ran to its end, the
\* path is in the list the run returns
Returned(i) == i <= Len(downloaded) /\ downloaded[i] = decisions[i].dest

\* the local copy of decision d exists, can be read and has the size 500 of
\* the remote file, in a run without force
SameSize500(d) ==
    /\ ~force
    /\ d.f.size = 500
    /\ d.local.exists
    /\ d.stat_ok
    /\ d.local.size = 500

\* C11 with the local file as the older one: with force = False, a remote
\* file of size 500 and a local copy of size 500 whose modification time is
\* older than the remote modifiedTime, the file is not downloaded.
C11_NoOpSyncLocalOlder ==
    \A i \in 1..Len(decisions) :
        LET d == decisions[i]
        IN  (/\ SameSize500(d)
             /\ d.f.modifiedTime.kind \in {"zulu", "offset"}
             /\ d.local.mtime < d.f.modifiedTime.wall - d.f.modifiedTime.off)
            => d.download = "none"

\* C11 amended: with force = False, a remote file of size 500 whose
\* modifiedTime is older than the modification time of a readable local copy
\* of size 500 is not downloaded; it is skipped as up to date and its path is
\* in the returned list.
C11_NoOpSyncRemoteOlder ==
    \A i \in 1..Len(decisions) :
        LET d == decisions[i]
        IN  (/\ SameSize500(d)
             /\ d.f.modifiedTime.kind \in {"zulu", "offset"}
             /\ d.f.modifiedTime.wall - d.f.modifiedTime.off < d.local.mtime)
            => /\ ~d.should_download
               /\ d.download = "none"
               /\ Returned(i)

\* a run has returned the path of a size-500 file that it skipped because its
\* remote modifiedTime is older than the local copy
C11_Witness ==
    /\ spc = "returned"
    /\ \E i \in 1..Len(decisions) :
           LET d == decisions[i]
           IN  /\ SameSize500(d)
               /\ d.f.modifiedTime.kind \in {"zulu", "offset"}
               /\ d.f.modifiedTime.wall - d.f.modifiedTime.off < d.local.mtime
               /\ d.download = "none"
               /\ Returned(i)

\* C12: with force = True every file of the listing is downloaded in the run:
\* the loop body calls the download for each file it reaches, whatever the
\* local copy, and a run that returns has downloaded every listed file.
C12_ForceDownloadsEveryFile ==
    force =>
        /\ \A i \in 1..Len(decisions) :
               /\ decisions[i].should_download
               /\ decisions[i].download # "none"
               /\ decisions[i].f = files[i]
        /\ spc = "returned" =>
               /\ Len(decisions) = Len(files)
               /\ \A i \in 1..Len(files) :
                      /\ decisions[i].download = "ok"
                      /\ Returned(i)

\* a forced run has returned after downloading a file whose local copy had
\* the remote size and a modification time newer than the remote one
C12_Witness ==
    /\ force
    /\ spc = "returned"
    /\ \E i \in 1..Len(decisions) :
           LET d == decisions[i]
           IN  /\ d.local.exists
               /\ d.local.size = d.f.size
               /\ d.f.modifiedTime.kind \in {"zulu", "offset"}
               /\ d.local.mtime > d.f.modifiedTime.wall - d.f.modifiedTime.off
               /\ d.download = "ok"
               /\ local[d.dest].content = d.f.id

\* the run under way, or just ended, repeats a completed run without force,
\* itself without force, and both could read every local copy they looked at
RepeatedSync ==
    /\ prev_run.completed
    /\ ~prev_run.force
    /\ prev_run.stat_ok
    /\ ~force
    /\ spc \in {"loop", "returned"}
    /\ \A i \in 1..Len(decisions) : decisions[i].stat_ok

\* C13: a sync without force that repeats a completed sync without force,
\* with the same folder and the local files as the first run left them,
\* downloads no file and returns the same list of paths.  Read in the code's
\* favour: the local clock is ahead of every remote modified time and every
\* local copy can be read.
C13_RepeatedSyncDownloadsNothing ==
    (RepeatedSync /\ now = 30) =>
        /\ \A i \in 1..Len(decisions) : decisions[i].download = "none"
        /\ spc = "returned" => downloaded = prev_run.downloaded

\* the size check finds no mismatch for decision d: the remote size is
\* missing or 0, or the local copy can be read and has the remote size
NoSizeMismatch(d) ==
    \/ d.f.size \in {NoSize, 0}
    \/ (d.stat_ok /\ d.local.size = d.f.size)

\* C14: with force = False, an existing local copy and no size mismatch, a
\* file whose modifiedTime cannot be parsed is not downloaded: it is skipped
\* as up to date, the loop body runs to its end and hands the path on.
C14_UnparseableTimeNeverDownloads ==
    \A i \in 1..Len(decisions) :
        LET d == decisions[i]
        IN  (/\ ~force
             /\ d.local.exists
             /\ NoSizeMismatch(d)
             /\ d.f.modifiedTime.kind = "garbled")
            => /\ ~d.should_download
               /\ d.download = "none"
               /\ Returned(i)

\* a run has returned after skipping a file with an unparseable modifiedTime
\* whose local copy has the remote size
C14_Witness ==
    /\ spc = "returned"
    /\ ~force
    /\ \E i \in 1..Len(decisions) :
           LET d == decisions[i]
           IN  /\ d.local.exists
               /\ d.stat_ok
               /\ d.f.size = 500
               /\ d.local.size = 500
               /\ d.f.modifiedTime.kind = "garbled"
               /\ d.download = "none"
               /\ Returned(i)

(***************************************************************************)
(* Properties of _safe_filename (SpecSafe)                                 *)
(***************************************************************************)
\* the characters of cs after its last dot; cs itself when it has no dot
Extension(cs) ==
    LET ds == {i \in 1..Len(cs) : cs[i] = "."}
    IN  IF ds = {} THEN cs ELSE SubSeq(cs, MaxOf(ds) + 1, Len(cs))

HasDot(cs) == \E i \in 1..Len(cs) : cs[i] = "."

\* no reserved character, and no whitespace but single spaces
Sanitized(cs) ==
    /\ \A i \in 1..Len(cs) : cs[i] \notin ReservedChars
    /\ \A i \in 1..Len(cs) : cs[i] \in WhitespaceChars => cs[i] = " "
    /\ \A i \in 1..Len(cs) - 1 : ~(cs[i] = " " /\ cs[i + 1] = " ")

\* C15: for every name the output of _safe_filename holds no reserved
\* character and no whitespace run longer than one space, the extension
\* after the last dot is that of the name, "My:Book?.pdf" maps to
\* "My_Book_.pdf", and a second application changes nothing.
C15_SafeFilenameKeepsExtension ==
    /\ sf_pc \in {"once", "twice"} =>
           /\ Sanitized(sf_out)
           /\ HasDot(sf_name) => Extension(sf_out) = Extension(sf_name)
           /\ sf_name = Name1 => sf_out = Name2
    /\ sf_pc = "twice" => sf_again = sf_out

\* C15 amended: as above, but the extension after the last dot is that of
\* the name whenever it holds no reserved character and no whitespace.
C15_SafeFilenameKeepsCleanExtension ==
    /\ sf_pc \in {"once", "twice"} =>
           /\ Sanitized(sf_out)
           /\ (HasDot(sf_name) /\ Sanitized(Extension(sf_name))
                /\ \A i \in 1..Len(Extension(sf_name)) : Extension(sf_name)[i] # " ")
               => Extension(sf_out) = Extension(sf_name)
           /\ sf_name = Name1 => sf_out = Name2
    /\ sf_pc = "twice" => sf_again = sf_out

\* the function was applied twice to a name with a reserved character, a
\* tab and a clean extension, and changed it the first time only
C15_Witness ==
    /\ sf_pc = "twice"
    /\ \E i \in 1..Len(sf_name) : sf_name[i] \in ReservedChars
    /\ \E i \in 1..Len(sf_name) : sf_name[i] = "\t"
    /\ HasDot(sf_name)
    /\ Extension(sf_name) = <<"a">>
    /\ sf_out # sf_name
    /\ sf_again = sf_out

(***************************************************************************)
(* Properties of retrieval (SpecQuery)                                     *)
(***************************************************************************)
\* C16: the retrieval tool never raises: when the query returns no document
\* it returns the "no relevant information" result, and when a call on the
\* index fails (a missing collection included) it returns an error string.
C16_ToolReturnsInsteadOfRaising ==
    q_site = "tool" =>
        /\ ~q_out.raised
        /\ (q_results.ok /\ q_results.hits = <<>>) => q_out.kind = "none"
        /\ ~q_results.ok => q_out.kind = "error"
        /\ q_out.kind \in {"none", "error"} => q_out.entries = <<>>

\* the tool has queried an existing, empty collection and returned the "no
\* relevant information" result
C16_Witness ==
    /\ q_site = "tool"
    /\ collection = EmptyCollection
    /\ q_results.ok
    /\ q_results.hits = <<>>
    /\ q_out.kind = "none"
    /\ ~q_out.raised

\* C17: queries are read-only: after any number of _run and test_query calls
\* the collection holds the entries it held before the first of them, and no
\* collection has been created or deleted.
C17_QueriesLeaveCollectionAlone == collection = q_start

\* a query of each kind can be the last one made on a collection with
\* entries, which is as it was: here test_query, after it returned hits
C17_Witness ==
    /\ q_site = "test"
    /\ q_results.ok
    /\ Len(q_results.hits) = TestK
    /\ collection.items # {}
    /\ collection = q_start

\* the hits of the last query all carry a source
AllSourced == \A i \in 1..Len(q_results.hits) : "source" \in DOMAIN q_results.hits[i].metadata

\* entry i of the output is numbered i and pairs the text of hit i, or the
\* first 300 characters of it, with the source of hit i
PairsHit(i) ==
    LET e == q_out.entries[i]
        h == q_results.hits[i]
    IN  /\ e.n = i
        /\ e.source = (IF "source" \in DOMAIN h.metadata THEN h.metadata.source ELSE "Unknown")
        /\ e.text = (IF q_site = "tool" THEN h.document ELSE Slice(h.document, 0, PreviewLen))

\* there are at most k hits, all distinct entries of the collection
AtMostK ==
    /\ Len(q_results.hits) <= (IF q_site = "tool" THEN ToolK ELSE TestK)
    /\ \A i \in 1..Len(q_results.hits) : q_results.hits[i] \in collection.items

C19_DocumentClosedOnEveryExit ==
    /\ x_pc \in {"call", "pages", "finally"} => x_closes = 0
    /\ (x_pc \in {"returned", "raised", "chunked"} /\ x_pdf.openable) =>
           /\ x_closes = 1
           /\ x_doc \in {"closed", "close_failed"}
           /\ x_error = (IF x_pdf.fails_at > 0 THEN "read" ELSE "none")
           /\ x_pc = "raised" <=> x_pdf.fails_at > 0
    /\ (x_pc \in {"returned", "raised", "chunked"} /\ ~x_pdf.openable) =>
           /\ x_closes = 0
           /\ x_doc = "none"
           /\ x_error = "open"
           /\ x_pc = "raised"

\* the second page raised, close was called and failed, and the exception
\* of the page reached the caller
C19_Witness ==
    /\ x_pc = "raised"
    /\ x_page = 1
    /\ x_error = "read"
    /\ x_closes = 1
    /\ x_doc = "close_failed"

\* C20: extract_text_from_pdf raises for a PDF that cannot be opened and for
\* a PDF whose pages yield no text or that has no pages: it never returns an
\* empty text, and no empty text is handed to chunk_text.
C20_EmptyDocumentRaises ==
    /\ ~x_pdf.openable => x_pc \notin {"returned", "chunked"}
    /\ x_pc \in {"returned", "chunked"} => x_text.len > 0


(***************************************************************************)
(* Claims about extract_article_text, checked under SpecPage               *)
(***************************************************************************)
\* C21: the title is the text of <title> when that is not empty, the og:title
\* content only when there is no usable <title>, the first <h1> only when
\* there is neither, and empty otherwise
C21_TitleCascadeInOrder ==
    pg_pc = "returned" =>
        pg_out.title =
            StripChars(IF pg_doc.title_tag # <<>> THEN pg_doc.title_tag
                       ELSE IF pg_doc.og_title # <<>> THEN pg_doc.og_title
                       ELSE pg_doc.h1)

\* the text of an element outside nav, header, footer, script, style, form
\* and iframe children
KeptText(e) ==
    IF e.present
    THEN GetText(SelectSeq(e.parts, LAMBDA p : p.tag \notin
                     {"nav", "header", "footer", "script", "style", "form", "iframe"}))
    ELSE EmptyText

KeptParagraphs(ps) ==
    LET kept == SelectSeq(ps, LAMBDA p : p.tag \notin
                    {"nav", "header", "footer", "script", "style", "form", "iframe"})
    IN  [i \in 1..Len(kept) |-> Strip(kept[i].text)]

\* C22: the result is the <article> text when that has at least 500
\* characters, otherwise the text of the main container when that has at
\* least 500, otherwise the joined paragraphs longer than 50 characters, with
\* whitespace normalised and nothing from nav, header, footer, script, style,
\* form or iframe elements
C22_ContentCascade ==
    pg_pc = "returned" =>
        LET art == KeptText(pg_doc.article)
            mn == KeptText(pg_doc.main)
            picked == IF art.len >= 500 THEN art
                      ELSE IF mn.len >= 500 THEN mn
                      ELSE JoinParagraphs(LongParagraphs(KeptParagraphs(pg_doc.paragraphs)))
        IN  pg_out.text = Strip(CollapseSpaces(CollapseNewlines(picked)))


(***************************************************************************)
(* Claims about the batch loops, checked under SpecBatch                   *)
(***************************************************************************)
RECURSIVE Flatten(_)
Flatten(ss) == IF ss = <<>> THEN <<>> ELSE Head(ss) \o Flatten(Tail(ss))

\* the entries handed to the add calls made for document d, call by call
CallsOf(d) ==
    LET cs == SelectSeq(bt_calls, LAMBDA c : c.doc = d)
    IN  [k \in 1..Len(cs) |-> cs[k].entries]

\* C23: in both modes the add calls of a document receive consecutive batches
\* of exactly 100 chunks, the last one possibly shorter but never empty; put
\* end to end they are the chunk sequence in order, and no chunks means no
\* add call
C23_BatchesOfHundredInOrder ==
    \A d \in 1..Len(bt_docs) :
        LET all == BatchEntries(bt_mode, bt_docs[d])
            cs == CallsOf(d)
            sent == Flatten(cs)
        IN  /\ \A k \in 1..Len(cs) :
                  /\ Len(cs[k]) \in 1..100
                  /\ k < Len(cs) => Len(cs[k]) = 100
                  /\ Len(cs[k]) < 100 => 100 * (k - 1) + Len(cs[k]) = Len(all)
            /\ Len(sent) <= Len(all)
            /\ sent = SubSeq(all, 1, Len(sent))
            /\ (d < bt_d \/ bt_pc = "done") => sent = all
            /\ all = <<>> => cs = <<>>

C23_Witness ==
    /\ bt_pc = "done"
    /\ bt_mode = "article"
    /\ Len(CallsOf(1)) = 3
    /\ Len(CallsOf(1)[3]) = 1

\* C24: a failed add is the last index call of the run: the batch is not
\* handed over again, no later batch of that or of a later document is, and
\* the collection holds exactly the entries of the batches added before it
C24_FailedAddEndsTheRun ==
    /\ \A k \in 1..Len(bt_calls) :
           ~bt_calls[k].ok => k = Len(bt_calls) /\ bt_pc = "raised"
    /\ bt_items = UNION {Range(bt_calls[k].entries) :
                            k \in {j \in 1..Len(bt_calls) : bt_calls[j].ok}}
    /\ bt_pc = "raised" => bt_calls # <<>> /\ ~bt_calls[Len(bt_calls)].ok

\* the second batch of the first of two documents fails
C24_Witness ==
    /\ bt_pc = "raised"
    /\ Len(bt_docs) = 2
    /\ Len(bt_calls) = 2
    /\ bt_calls[2].doc = 1
    /\ Cardinality(bt_items) = 100


(***************************************************************************)
(* Claims about the course of a full rebuild, checked under SpecIngest     *)
(***************************************************************************)
\* the number of add calls among the index calls of the run
AddCalls == Len(SelectSeq(index_calls, LAMBDA c : c = "add"))

\* C25: the PDFs of a rebuild are the files of the books directory, with
\* those of the sync directory or without, each resolved path once and in
\* sorted order; they are extracted in that order, one extraction each, and
\* in a completed run each with chunks has had its one add call
C25_EachPdfOnceInPathOrder ==
    /\ \A i, j \in DOMAIN pdf_files : i < j => pdf_files[i] < pdf_files[j]
    /\ Range(pdf_files) \subseteq pdfs
    /\ pdf_files # <<>> =>
           Range(pdf_files) \in {pdfs, {p \in pdfs : PdfDir[p] = BOOKS_DIR}}
    /\ Len(extracted) <= Len(pdf_files)
    /\ extracted = SubSeq(pdf_files, 1, Len(extracted))
    /\ outcome = "rb_complete" =>
           /\ extracted = pdf_files
           /\ AddCalls = Cardinality({p \in Range(pdf_files) : BookChunks(p) # <<>>})
           /\ \A p \in Range(pdf_files) :
                  BookChunks(p) # <<>> => \E h \in handed : h.doc = <<"pdf", p>>

\* both listings were of the books directory (the file of the sync
\* directory was not listed) and found the same two files
C25_Witness ==
    /\ outcome = "rb_complete"
    /\ 1 \in pdfs
    /\ pdf_files = <<2, 4>>
    /\ extracted = <<2, 4>>

\* the rebuild under way, or the last run, ended when extract_text_from_pdf
\* raised
ExtractionFailed ==
    /\ ipc = "idle"
    /\ outcome = "rb_aborted"
    /\ extracted # <<>>
    /\ ~PdfFile[extracted[Len(extracted)]].readable

RECURSIVE AddedInOrder(_)
\* the collection after the chunks of the PDFs ps were added, in order, to
\* an empty one
AddedInOrder(ps) ==
    IF ps = <<>> THEN {}
    ELSE CollectionAdd(AddedInOrder(SubSeq(ps, 1, Len(ps) - 1)),
                       BookEntries(BookChunks(ps[Len(ps)])))

\* C26: when the extraction of a PDF raises the run ends there: no later PDF
\* is extracted or added, the new collection holds the chunks of the PDFs
\* before it and nothing else, so what the collection held before the
\* rebuild is gone
C26_ExtractionFailureIsFatal ==
    ExtractionFailed =>
        /\ Len(extracted) = doc_i
        /\ extracted = SubSeq(pdf_files, 1, doc_i)
        /\ created
        /\ collection.exists
        /\ collection.items = AddedInOrder(SubSeq(pdf_files, 1, doc_i - 1))
        /\ AddCalls = Cardinality({p \in Range(SubSeq(pdf_files, 1, doc_i - 1)) :
                                      BookChunks(p) # <<>>})

\* the second of three PDFs cannot be read, and the collection held entries
\* that the rebuild has not put back
C26_Witness ==
    /\ ExtractionFailed
    /\ doc_i = 2
    /\ Len(pdf_files) = 3
    /\ collection.items # {}
    /\ ~(before.items \subseteq collection.items)

\* C27: a rebuild that stops before the index is opened (no folder id, the
\* sync raising, no books directory, no PDF) makes no index call and leaves
\* the collection as it was; after a sync that raised the run is such a
\* stop, whatever PDFs are on disk
C27_EarlyStopLeavesIndexAlone ==
    /\ outcome \in {"rb_no_folder_id", "rb_sync_failed", "rb_no_books_dir", "rb_no_pdfs"} =>
           /\ ipc = "idle"
           /\ index_calls = <<>>
           /\ collection = before
           /\ extracted = <<>>
    /\ sync_failed =>
           /\ outcome = "rb_sync_failed"
           /\ pdf_files = <<>>

\* the sync raised with PDFs on disk and a filled collection
C27_Witness ==
    /\ sync_failed
    /\ outcome = "rb_sync_failed"
    /\ \E p \in pdfs : PdfDir[p] = BOOKS_DIR /\ PdfFile[p].readable
    /\ collection.exists
    /\ collection.items # {}


(***************************************************************************)
(* Termination of chunk_text, checked under SpecChunk                      *)
(***************************************************************************)
\* C28: the cursor is never negative and every pass moves it forward, as
\* every window spans at least CHUNK_SIZE/2 + 2 characters and the step back
\* is CHUNK_OVERLAP; so the passes, one chunk each, number at most
\* len(text) / 302 rounded up
C28_CursorAdvancesLoopEnds ==
    LET span == CHUNK_SIZE \div 2 + 2
        step == span - CHUNK_OVERLAP
    IN  /\ start >= 0
        /\ \A i \in 1..Len(windows) :
               /\ windows[i][1] >= 0
               /\ windows[i][2] - windows[i][1] >= span
               /\ StartAfter(i) > windows[i][1]
               /\ StartAfter(i) - windows[i][1] >= step
        /\ Len(windows) = chunk_id
        /\ Len(chunks) = chunk_id
        /\ chunk_id <= (text.len + step - 1) \div step

\* a window cut at the earliest sentence end that counts
C28_Witness ==
    /\ cpc = "returned"
    /\ Len(windows) >= 3
    /\ windows[1] = <<0, CHUNK_SIZE \div 2 + 2>>


(***************************************************************************)
(* The local paths of a sync run, checked under SpecSync                   *)
(***************************************************************************)
\* C29: within one sync run two different remote files never get the same
\* local path, and when the run returns every file it downloaded is the
\* content of its path
C29_DistinctFilesDistinctPaths ==
    /\ \A i, j \in 1..Len(decisions) :
           decisions[i].f.id # decisions[j].f.id => decisions[i].dest # decisions[j].dest
    /\ spc = "returned" =>
           \A i \in 1..Len(decisions) :
               decisions[i].download = "ok" => local[decisions[i].dest].content = decisions[i].f.id


(***************************************************************************)
(* The draft tool's security check, checked under SpecMail                 *)
(***************************************************************************)
\* the fields of the input, stripped
MailField(k) == StripChars(Split(gm_input, "|")[k])

\* the recipient holds a blocked pattern or domain, or the subject a blocked
\* keyword, upper and lower case taken as the same
MailBlocked ==
    \/ \E k \in DOMAIN BLOCKED_DOMAINS : Contains(Lower(MailField(1)), BLOCKED_DOMAINS[k])
    \/ \E k \in DOMAIN BLOCKED_SENDER_DOMAINS :
           Contains(Lower(MailField(1)), BLOCKED_SENDER_DOMAINS[k])
    \/ \E k \in DOMAIN BLOCKED_SUBJECTS : Contains(Lower(MailField(2)), BLOCKED_SUBJECTS[k])

\* the recipient or the subject of the input is blocked, whatever the number
\* of its fields
MailBlockedAnyInput ==
    LET parts == Split(gm_input, "|")
        recipient == Lower(StripChars(parts[1]))
        subject == IF Len(parts) >= 2 THEN Lower(StripChars(parts[2])) ELSE <<>>
    IN  \/ \E k \in DOMAIN BLOCKED_DOMAINS : Contains(recipient, BLOCKED_DOMAINS[k])
        \/ \E k \in DOMAIN BLOCKED_SENDER_DOMAINS :
               Contains(recipient, BLOCKED_SENDER_DOMAINS[k])
        \/ \E k \in DOMAIN BLOCKED_SUBJECTS : Contains(subject, BLOCKED_SUBJECTS[k])

\* drafts().create is called only for an input of at least four fields that
\* passes is_safe_to_reply, at most once and after the check
CreateOnlyAfterCheck ==
    LET fields == Len(Split(gm_input, "|"))
        creates == {k \in DOMAIN gm_calls : gm_calls[k] = "drafts.create"}
    IN  /\ creates # {} =>
               /\ fields >= 4
               /\ ~MailBlocked
               /\ gm_calls = <<"is_safe_to_reply", "drafts.create">>
        /\ gm_out.kind = "success" => creates # {}
        /\ gm_out.kind = "blocked" => (fields >= 4 /\ MailBlocked /\ ~gm_draft.present)

\* C30 as stated: a draft is created only for an input of at least four
\* fields that passes is_safe_to_reply, after the check; for any blocked
\* recipient or subject no create call is made and the result is BLOCKED
C30_BlockedAlwaysReported ==
    /\ CreateOnlyAfterCheck
    /\ (gm_pc = "returned" /\ MailBlockedAnyInput) =>
           /\ gm_out.kind = "blocked"
           /\ "drafts.create" \notin Range(gm_calls)

\* C30: a draft is created only for an input of at least four fields that
\* passes is_safe_to_reply, after the check; for any blocked recipient or
\* subject no create call is made, and the result is BLOCKED when the Gmail
\* service was obtained and the input has at least four fields
C30_DraftOnlyWhenSafe ==
    /\ CreateOnlyAfterCheck
    /\ MailBlockedAnyInput => "drafts.create" \notin Range(gm_calls)
    /\ (gm_pc = "returned" /\ gm_service = "ok" /\ Len(Split(gm_input, "|")) >= 4
            /\ MailBlocked) => gm_out.kind = "blocked"

\* a recipient blocked but for its capital letters
C30_Witness ==
    /\ gm_pc = "returned"
    /\ gm_out = [kind |-> "blocked", reason |-> "pattern"]
    /\ MailField(1) = <<"N", "o", "R", "e", "p", "l", "y", "@", "b", ".", "i", "o">>

====
